---- MODULE Spec2Model ----
(***************************************************************************)
(* Model of the shine-identity service: the three-cookie session model     *)
(* (auth/auth_session.rs) and the external-login pages built on it         *)
(* (auth/oauth2/page_oauth2_login.rs, auth/oauth2/page_oauth2_auth.rs,     *)
(* auth/oidc/page_oidc_auth.rs).                                           *)
(*                                                                         *)
(* One request is three steps: the extractor (from_request_parts) turns    *)
(* the presented cookies into an AuthSession, the page handler runs on it  *)
(* and its result is turned into Set-Cookie directives                     *)
(* (into_response_parts), and the request ends.                            *)
(***************************************************************************)
EXTENDS Integers, Sequences, FiniteSets, TLC

(***************************************************************************)
(* Bounds of the model.                                                    *)
(***************************************************************************)
NumUsers == 2
MaxTime == 2

\* Duration::days(1) of create_jar, in clock ticks (one tick is one day).
OneDay == 1

Users == 1..NumUsers
Times == 0..MaxTime

(***************************************************************************)
(* Option<T>: None is the empty sequence, Some(x) the one-element one.     *)
(***************************************************************************)
None == << >>
Some(x) == << x >>
is_some(o) == o # None
is_none(o) == o = None
Option(S) == {None} \cup {Some(x) : x \in S}

\* Option<U> of the user_id of an Option<CurrentUser> or Option<TokenLogin>
map_user_id(o) == [i \in DOMAIN o |-> o[i].user_id]

(***************************************************************************)
(* Strings that are inspected character by character are sequences of      *)
(* characters.                                                             *)
(***************************************************************************)
ends_with(s, suffix) ==
    /\ Len(suffix) <= Len(s)
    /\ SubSeq(s, Len(s) - Len(suffix) + 1, Len(s)) = suffix

D_home == <<"b", ".", "c">>
D_auth == <<"a", ".", "b", ".", "c">>
D_lookalike == <<"x", "b", ".", "c">>
D_other == <<"a", ".", "d", ".", "c">>

\* Url: the domain (None for an address without one) and the path
Url(domain, path) == [domain |-> domain, path |-> path]

\* AuthConfig.home_url, AuthConfig.api_url and the AuthSessionConfig secrets
\* (TRUE: the secret is base64 of a valid key).
Configs ==
    { [home_url |-> Url(Some(D_home), "/"), api_url |-> Url(Some(a), "/identity"),
       cookie_name_suffix |-> None,
       session_secret |-> TRUE, external_login_secret |-> TRUE, token_login_secret |-> TRUE]
        : a \in {D_auth, D_lookalike, D_other} }
    \cup
    { [home_url |-> Url(Some(D_home), "/"), api_url |-> Url(None, "/identity"),
       cookie_name_suffix |-> None,
       session_secret |-> TRUE, external_login_secret |-> TRUE, token_login_secret |-> TRUE],
      [home_url |-> Url(None, "/"), api_url |-> Url(Some(D_auth), "/identity"),
       cookie_name_suffix |-> None,
       session_secret |-> TRUE, external_login_secret |-> TRUE, token_login_secret |-> TRUE],
      [home_url |-> Url(Some(D_home), "/"), api_url |-> Url(Some(D_auth), "/identity"),
       cookie_name_suffix |-> Some("-dev"),
       session_secret |-> FALSE, external_login_secret |-> TRUE, token_login_secret |-> TRUE] }

CookieSettings(name, secret, domain, path) ==
    [name |-> name, secret |-> secret, domain |-> domain, path |-> path]

unwrap_or_default(o) == IF is_some(o) THEN o[1] ELSE ""

Err(e) == [ok |-> FALSE, err |-> e]
Ok(v) == [ok |-> TRUE, value |-> v]

\* AuthSessionMeta::new, but the token-login cookie is scoped like the user cookie
AuthSessionMeta_new_token_on_home(home_url, auth_base, config) ==
    LET cookie_name_suffix == unwrap_or_default(config.cookie_name_suffix) IN
    IF is_none(home_url.domain) THEN Err("MissingHomeDomain")
    ELSE IF is_none(auth_base.domain) THEN Err("MissingDomain")
    ELSE
    LET home_domain == home_url.domain[1]
        auth_domain == auth_base.domain[1]
        auth_path == auth_base.path
    IN
    IF ~ends_with(auth_domain, home_domain) THEN Err("InvalidApiDomain")
    ELSE IF ~config.token_login_secret THEN Err("InvalidSecret")
    ELSE IF ~config.session_secret THEN Err("InvalidSecret")
    ELSE IF ~config.external_login_secret THEN Err("InvalidSecret")
    ELSE Ok([user |-> CookieSettings(<<"sid", cookie_name_suffix>>, "session_secret",
                                     home_domain, "/"),
             external_login |-> CookieSettings(<<"eid", cookie_name_suffix>>,
                                     "external_login_secret", auth_domain, auth_path),
             token_login |-> CookieSettings(<<"tid", cookie_name_suffix>>,
                                     "token_login_secret", home_domain, "/")])

\* AuthSessionMeta::new
AuthSessionMeta_new(home_url, auth_base, config) ==
    LET cookie_name_suffix == unwrap_or_default(config.cookie_name_suffix) IN
    IF is_none(home_url.domain) THEN Err("MissingHomeDomain")
    ELSE IF is_none(auth_base.domain) THEN Err("MissingDomain")
    ELSE
    LET home_domain == home_url.domain[1]
        auth_domain == auth_base.domain[1]
        auth_path == auth_base.path
    IN
    IF ~ends_with(auth_domain, home_domain) THEN Err("InvalidApiDomain")
    ELSE IF ~config.token_login_secret THEN Err("InvalidSecret")
    ELSE IF ~config.session_secret THEN Err("InvalidSecret")
    ELSE IF ~config.external_login_secret THEN Err("InvalidSecret")
    ELSE Ok([user |-> CookieSettings(<<"sid", cookie_name_suffix>>, "session_secret",
                                     home_domain, "/"),
             external_login |-> CookieSettings(<<"eid", cookie_name_suffix>>,
                                     "external_login_secret", auth_domain, auth_path),
             token_login |-> CookieSettings(<<"tid", cookie_name_suffix>>,
                                     "token_login_secret", auth_domain, auth_path)])

(***************************************************************************)
(* The session components and their JSON form (serde, with the renamed     *)
(* fields).  A JSON object is a record of its keys; a text that is no JSON *)
(* is None.                                                                *)
(***************************************************************************)
Verifiers == {"pv1"}
CsrfTokens == {"x", "y"}
Nonces == {"n1"}
TargetUrls == {"/target"}
ErrorUrls == {"/error"}
Tokens == {"tok1"}

\* shine_service::service::CurrentUser, reduced to the field the session reads
CurrentUsers == [user_id : Users]

ExternalLogins ==
    [pkce_code_verifier : Verifiers, csrf_state : CsrfTokens, nonce : Option(Nonces),
     target_url : Option(TargetUrls), error_url : Option(ErrorUrls),
     remember_me : BOOLEAN, linked_user : Option(CurrentUsers)]

TokenLogins == [user_id : Users, token : Tokens, expires : Times]

to_string_CurrentUser(u) == [user_id |-> u.user_id]
from_str_CurrentUser(text) ==
    IF is_some(text) /\ {"user_id"} \subseteq DOMAIN text[1]
    THEN Some([user_id |-> text[1].user_id]) ELSE None

to_string_ExternalLogin(e) ==
    [pv |-> e.pkce_code_verifier, cv |-> e.csrf_state, n |-> e.nonce, t |-> e.target_url,
     et |-> e.error_url, remember_me |-> e.remember_me,
     l |-> [i \in DOMAIN e.linked_user |-> to_string_CurrentUser(e.linked_user[i])]]
from_str_ExternalLogin(text) ==
    IF /\ is_some(text)
       /\ {"pv", "cv", "remember_me"} \subseteq DOMAIN text[1]
       /\ ("l" \in DOMAIN text[1] /\ is_some(text[1].l)
              => is_some(from_str_CurrentUser(text[1].l)))
    THEN LET j == text[1]
             opt(k) == IF k \in DOMAIN j THEN j[k] ELSE None
             l == opt("l")
         IN Some([pkce_code_verifier |-> j.pv, csrf_state |-> j.cv, nonce |-> opt("n"),
                  target_url |-> opt("t"), error_url |-> opt("et"),
                  remember_me |-> j.remember_me,
                  linked_user |-> IF is_some(l) THEN from_str_CurrentUser(l) ELSE None])
    ELSE None

to_string_TokenLogin(t) == [u |-> t.user_id, t |-> t.token, e |-> t.expires]
from_str_TokenLogin(text) ==
    IF is_some(text) /\ {"u", "t", "e"} \subseteq DOMAIN text[1]
    THEN Some([user_id |-> text[1].u, token |-> text[1].t, expires |-> text[1].e])
    ELSE None

\* serde_json::to_string of a T: Serialize, the implementation chosen by the type
to_string(data) ==
    IF "csrf_state" \in DOMAIN data THEN to_string_ExternalLogin(data)
    ELSE IF "token" \in DOMAIN data THEN to_string_TokenLogin(data)
    ELSE to_string_CurrentUser(data)

(***************************************************************************)
(* Signed cookies.  A cookie names the secret its signature was made with  *)
(* ("forged" for a signature made with none of the service's secrets) and  *)
(* carries its plain value.                                                *)
(***************************************************************************)
Signed(secret, value) == [signed_by |-> secret, value |-> value]

\* SignedCookieJar::from_headers(headers, key).get(name): the plain value of the
\* cookie when its signature verifies under the key
jar_get(cookie, settings) ==
    IF is_some(cookie) /\ cookie[1].signed_by = settings.secret
    THEN Some(cookie[1].value) ELSE None

AuthSession_new(user, external_login, token_login) ==
    [user |-> user, external_login |-> external_login, token_login |-> token_login]

\* raw_components, but one cookie whose signature does not verify spoils the request
raw_components_all_or_nothing(headers, meta) ==
    LET bad(c, settings) == is_some(c) /\ c[1].signed_by # settings.secret
        user == jar_get(headers.user, meta.user)
        external_login == jar_get(headers.external_login, meta.external_login)
        token_login == jar_get(headers.token_login, meta.token_login)
    IN IF \/ bad(headers.user, meta.user)
          \/ bad(headers.external_login, meta.external_login)
          \/ bad(headers.token_login, meta.token_login)
       THEN AuthSession_new(None, None, None)
       ELSE AuthSession_new(
        IF is_some(user) THEN from_str_CurrentUser(user[1]) ELSE None,
        IF is_some(external_login) THEN from_str_ExternalLogin(external_login[1]) ELSE None,
        IF is_some(token_login) THEN from_str_TokenLogin(token_login[1]) ELSE None)

\* the components as decoded from the three cookies, before validation
raw_components(headers, meta) ==
    LET user == jar_get(headers.user, meta.user)
        external_login == jar_get(headers.external_login, meta.external_login)
        token_login == jar_get(headers.token_login, meta.token_login)
    IN AuthSession_new(
        IF is_some(user) THEN from_str_CurrentUser(user[1]) ELSE None,
        IF is_some(external_login) THEN from_str_ExternalLogin(external_login[1]) ELSE None,
        IF is_some(token_login) THEN from_str_TokenLogin(token_login[1]) ELSE None)

\* validate, but the token's expiry is not looked at
validate_no_expiry(raw, utc_now) ==
    LET token_login == raw.token_login
        user == IF map_user_id(token_login) # map_user_id(raw.user)
                THEN None ELSE raw.user
        linked_user == IF is_some(raw.external_login)
                       THEN raw.external_login[1].linked_user ELSE None
        external_login == IF map_user_id(linked_user) # map_user_id(user)
                          THEN None ELSE raw.external_login
    IN AuthSession_new(user, external_login, token_login)

\* validate, but a token is dropped at its expiry and not after it
validate_expiry_inclusive(raw, utc_now) ==
    LET token_login == IF (IF is_some(raw.token_login)
                           THEN raw.token_login[1].expires <= utc_now ELSE TRUE)
                       THEN None ELSE raw.token_login
        user == IF map_user_id(token_login) # map_user_id(raw.user)
                THEN None ELSE raw.user
        linked_user == IF is_some(raw.external_login)
                       THEN raw.external_login[1].linked_user ELSE None
        external_login == IF map_user_id(linked_user) # map_user_id(user)
                          THEN None ELSE raw.external_login
    IN AuthSession_new(user, external_login, token_login)

\* validate, but the external login is matched against the user as decoded
validate_external_login_against_raw_user(raw, utc_now) ==
    LET token_login == IF (IF is_some(raw.token_login)
                           THEN raw.token_login[1].expires < utc_now ELSE TRUE)
                       THEN None ELSE raw.token_login
        user == IF map_user_id(token_login) # map_user_id(raw.user)
                THEN None ELSE raw.user
        linked_user == IF is_some(raw.external_login)
                       THEN raw.external_login[1].linked_user ELSE None
        external_login == IF map_user_id(linked_user) # map_user_id(raw.user)
                          THEN None ELSE raw.external_login
    IN AuthSession_new(user, external_login, token_login)

\* validate, but the user is matched against the token before its expiry is resolved
validate_match_before_expiry(raw, utc_now) ==
    LET user == IF map_user_id(raw.token_login) # map_user_id(raw.user)
                THEN None ELSE raw.user
        token_login == IF (IF is_some(raw.token_login)
                           THEN raw.token_login[1].expires < utc_now ELSE TRUE)
                       THEN None ELSE raw.token_login
        linked_user == IF is_some(raw.external_login)
                       THEN raw.external_login[1].linked_user ELSE None
        external_login == IF map_user_id(linked_user) # map_user_id(user)
                          THEN None ELSE raw.external_login
    IN AuthSession_new(user, external_login, token_login)

\* validate, but only an external login that links is matched against the user
validate_matches_links_only(raw, utc_now) ==
    LET token_login == IF (IF is_some(raw.token_login)
                           THEN raw.token_login[1].expires < utc_now ELSE TRUE)
                       THEN None ELSE raw.token_login
        user == IF map_user_id(token_login) # map_user_id(raw.user)
                THEN None ELSE raw.user
        linked_user == IF is_some(raw.external_login)
                       THEN raw.external_login[1].linked_user ELSE None
        external_login == IF is_some(linked_user) /\ map_user_id(linked_user) # map_user_id(user)
                          THEN None ELSE raw.external_login
    IN AuthSession_new(user, external_login, token_login)

\* the validation of from_request_parts, the three rules in the order of the code
validate(raw, utc_now) ==
    LET token_login == IF (IF is_some(raw.token_login)
                           THEN raw.token_login[1].expires < utc_now ELSE TRUE)
                       THEN None ELSE raw.token_login
        user == IF map_user_id(token_login) # map_user_id(raw.user)
                THEN None ELSE raw.user
        linked_user == IF is_some(raw.external_login)
                       THEN raw.external_login[1].linked_user ELSE None
        external_login == IF map_user_id(linked_user) # map_user_id(user)
                          THEN None ELSE raw.external_login
    IN AuthSession_new(user, external_login, token_login)

\* AuthSession::from_request_parts
from_request_parts(headers, meta, utc_now) == validate(raw_components(headers, meta), utc_now)

\* AuthSession::clear
clear(auth_session) == AuthSession_new(None, None, None)

(***************************************************************************)
(* The response: create_jar and into_response_parts.                       *)
(***************************************************************************)
\* cookie::Expiration
Expiration_Session == None
Expiration_DateTime(t) == Some(t)

\* create_jar, but the cookie of a component that is None is left a session cookie
create_jar_none_not_expired(settings, data, expiration, utc_now) ==
    LET value == IF is_some(data) THEN Some(to_string(data[1])) ELSE None
    IN << [name |-> settings.name,
           value |-> Signed(settings.secret, value),
           expires |-> expiration,
           secure |-> TRUE,
           domain |-> settings.domain,
           path |-> settings.path,
           http_only |-> TRUE,
           same_site |-> "Lax"] >>

\* create_jar: the jar holding the one cookie added to it, signed with the secret of
\* the settings.  A component that is None gives a cookie with the empty value.
create_jar(settings, data, expiration, utc_now) ==
    LET value == IF is_some(data) THEN Some(to_string(data[1])) ELSE None
        expires == IF is_some(data) THEN expiration
                   ELSE Expiration_DateTime(utc_now - OneDay)
    IN << [name |-> settings.name,
           value |-> Signed(settings.secret, value),
           expires |-> expires,
           secure |-> TRUE,
           domain |-> settings.domain,
           path |-> settings.path,
           http_only |-> TRUE,
           same_site |-> "Lax"] >>

\* AuthSession::into_response_parts: the Set-Cookie directives of the response
into_response_parts(self, meta, utc_now) ==
    LET token_expiration == IF is_some(self.token_login) THEN self.token_login[1].expires
                            ELSE utc_now
        user == create_jar(meta.user, self.user, Expiration_Session, utc_now)
        external_login == create_jar(meta.external_login, self.external_login,
                                     Expiration_Session, utc_now)
        token_login == create_jar(meta.token_login, self.token_login,
                                  Expiration_DateTime(token_expiration), utc_now)
    IN user \o external_login \o token_login

(***************************************************************************)
(* The pages.  An AuthPage carries the session handed to it (the response  *)
(* sets its cookies), the outcome and the url the user agent is sent to.   *)
(***************************************************************************)
AuthPage(auth_session, outcome, url) ==
    [auth_session |-> auth_session, outcome |-> outcome, url |-> url]

\* AuthServiceState::page_error
page_error(auth_session, error, url) == AuthPage(auth_session, error, url)
\* AuthServiceState::page_internal_error
page_internal_error(auth_session, url) == AuthPage(auth_session, "InternalError", url)
\* AuthServiceState::page_redirect
page_redirect(auth_session, provider, url) == AuthPage(auth_session, "Redirect", url)
\* AuthServiceState::page_external_link: binds the provider id to the session's user
page_external_link(auth_session, provider, provider_id, target_url, error_url) ==
    AuthPage(auth_session, "Linked", target_url)
\* AuthServiceState::page_external_login: the identity resolved or created for the
\* external user becomes the session's user
page_external_login(auth_session, external_user_info, target_url, error_url, remember_me, identity) ==
    AuthPage([auth_session EXCEPT !.user = Some([user_id |-> identity])],
             "LoggedIn", target_url)

\* what a handler did: the page it returned, the session it handed to that page and, in
\* order, the calls it made to the provider and to the pages that use the identity store
Handled(session, page, calls) ==
    [panicked |-> FALSE, handed |-> session, page |-> page, calls |-> calls]
Panicked ==
    [panicked |-> TRUE, handed |-> AuthSession_new(None, None, None),
     page |-> AuthPage(AuthSession_new(None, None, None), "Panic", None), calls |-> << >>]

OAuth2Providers == {"oauth2a"}
OIDCProviders == {"oidc1"}
ProviderIds == {"pid1"}
ExtNames == {"nick"}
ExtEmails == {"e@x"}
Codes == {"good", "bad"}
AuthorizeUrl == Some("/authorize")

\* what a provider tells about a user: the id, and the name and email or neither
ExternalUserInfos(provider) ==
    {i \in [provider : {provider}, provider_id : ProviderIds,
            name : Option(ExtNames), email : Option(ExtEmails)] :
        is_some(i.name) = is_some(i.email)}

\* take, but the session keeps its external login (as_ref for take)
take_external_login_keeps(auth_session) ==
    [taken |-> auth_session.external_login, session |-> auth_session]

\* auth_session.external_login.take(): the external login taken out of the session and the
\* session left behind
take_external_login(auth_session) ==
    [taken |-> auth_session.external_login,
     session |-> [auth_session EXCEPT !.external_login = None]]

\* page_oauth2_auth, but the code is exchanged before the session is looked at
page_oauth2_auth_exchange_first(auth_session, client, query, reply) ==
    LET taken == take_external_login(auth_session).taken
        session == take_external_login(auth_session).session
    IN
    IF is_none(reply.token)
    THEN Handled(session, page_internal_error(session, None), <<"exchange_code">>)
    ELSE IF is_none(taken)
    THEN Handled(session, page_error(session, "MissingExternalLogin", None), <<"exchange_code">>)
    ELSE
    LET e == taken[1] IN
    IF e.csrf_state # query.state
    THEN Handled(session, page_error(session, "InvalidCSRF", e.error_url), <<"exchange_code">>)
    ELSE IF is_none(reply.user_info)
    THEN Handled(session, page_error(session, "FailedExternalUserInfo", e.error_url),
                 <<"exchange_code", "get_external_user_info">>)
    ELSE IF is_some(e.linked_user)
    THEN Handled(session, page_external_link(session, client, reply.user_info[1].provider_id,
                                    e.target_url, e.error_url),
                 <<"exchange_code", "get_external_user_info", "page_external_link">>)
    ELSE Handled(session, page_external_login(session, reply.user_info[1], e.target_url,
                                     e.error_url, e.remember_me, reply.identity),
                 <<"exchange_code", "get_external_user_info", "page_external_login">>)

\* page_oauth2_auth, but a failed code exchange is tried a second time
page_oauth2_auth_exchange_retried(auth_session, client, query, reply) ==
    LET taken == take_external_login(auth_session).taken
        session == take_external_login(auth_session).session
    IN
    IF is_none(taken)
    THEN Handled(session, page_error(session, "MissingExternalLogin", None), << >>)
    ELSE
    LET e == taken[1] IN
    IF e.csrf_state # query.state
    THEN Handled(session, page_error(session, "InvalidCSRF", e.error_url), << >>)
    ELSE IF is_none(reply.token)
    THEN Handled(session, page_internal_error(session, e.error_url),
                 <<"exchange_code", "exchange_code">>)
    ELSE IF is_none(reply.user_info)
    THEN Handled(session, page_error(session, "FailedExternalUserInfo", e.error_url),
                 <<"exchange_code", "get_external_user_info">>)
    ELSE IF is_some(e.linked_user)
    THEN Handled(session, page_external_link(session, client, reply.user_info[1].provider_id,
                                    e.target_url, e.error_url),
                 <<"exchange_code", "get_external_user_info", "page_external_link">>)
    ELSE Handled(session, page_external_login(session, reply.user_info[1], e.target_url,
                                     e.error_url, e.remember_me, reply.identity),
                 <<"exchange_code", "get_external_user_info", "page_external_login">>)

\* Callback of an OAuth2 provider.  reply is what the provider answers: token is the
\* result of the code exchange (None: the exchange failed), user_info the result of
\* get_external_user_info (None: it failed); identity is the user the identity store
\* resolves the external login to.
page_oauth2_auth(auth_session, client, query, reply) ==
    LET taken == take_external_login(auth_session).taken
        session == take_external_login(auth_session).session
    IN
    IF is_none(taken)
    THEN Handled(session, page_error(session, "MissingExternalLogin", None), << >>)
    ELSE
    LET e == taken[1] IN
    IF e.csrf_state # query.state
    THEN Handled(session, page_error(session, "InvalidCSRF", e.error_url), << >>)
    ELSE IF is_none(reply.token)
    THEN Handled(session, page_internal_error(session, e.error_url), <<"exchange_code">>)
    ELSE IF is_none(reply.user_info)
    THEN Handled(session, page_error(session, "FailedExternalUserInfo", e.error_url),
                 <<"exchange_code", "get_external_user_info">>)
    ELSE IF is_some(e.linked_user)
    THEN Handled(session, page_external_link(session, client, reply.user_info[1].provider_id,
                                    e.target_url, e.error_url),
                 <<"exchange_code", "get_external_user_info", "page_external_link">>)
    ELSE Handled(session, page_external_login(session, reply.user_info[1], e.target_url,
                                     e.error_url, e.remember_me, reply.identity),
                 <<"exchange_code", "get_external_user_info", "page_external_login">>)

\* page_oidc_auth, but the state parameter is not compared with the stored csrf_state
page_oidc_auth_no_csrf_check(auth_session, client, query, reply) ==
    LET taken == take_external_login(auth_session).taken
        session == take_external_login(auth_session).session
    IN
    IF is_none(taken)
    THEN Handled(session, page_error(session, "MissingExternalLogin", None), << >>)
    ELSE
    LET e == taken[1] IN
    IF is_none(e.nonce)
    THEN Handled(session, page_error(session, "MissingNonce", e.error_url), << >>)
    ELSE IF is_none(reply.token)
    THEN Handled(session, page_internal_error(session, e.error_url), <<"exchange_code">>)
    ELSE
    LET id_token == reply.token[1].id_token
        claims == IF is_some(id_token) /\ id_token[1].nonce = e.nonce[1]
                  THEN id_token ELSE None
    IN
    IF is_none(claims)
    THEN Handled(session, page_error(session, "FailedExternalUserInfo", e.error_url),
                 <<"exchange_code", "claims">>)
    ELSE
    LET external_user_info == [provider |-> client, provider_id |-> claims[1].subject,
                               name |-> claims[1].nickname, email |-> claims[1].email]
    IN
    IF is_some(e.linked_user)
    THEN Handled(session, page_external_link(session, client, external_user_info.provider_id,
                                    e.target_url, e.error_url),
                 <<"exchange_code", "claims", "page_external_link">>)
    ELSE Handled(session, page_external_login(session, external_user_info, e.target_url,
                                     e.error_url, e.remember_me, reply.identity),
                 <<"exchange_code", "claims", "page_external_login">>)

\* page_oidc_auth, but the external user is logged in whether the flow links or not
page_oidc_auth_always_login(auth_session, client, query, reply) ==
    LET taken == take_external_login(auth_session).taken
        session == take_external_login(auth_session).session
    IN
    IF is_none(taken)
    THEN Handled(session, page_error(session, "MissingExternalLogin", None), << >>)
    ELSE
    LET e == taken[1] IN
    IF is_none(e.nonce)
    THEN Handled(session, page_error(session, "MissingNonce", e.error_url), << >>)
    ELSE IF e.csrf_state # query.state
    THEN Handled(session, page_error(session, "InvalidCSRF", e.error_url), << >>)
    ELSE IF is_none(reply.token)
    THEN Handled(session, page_internal_error(session, e.error_url), <<"exchange_code">>)
    ELSE
    LET id_token == reply.token[1].id_token
        claims == IF is_some(id_token) /\ id_token[1].nonce = e.nonce[1]
                  THEN id_token ELSE None
    IN
    IF is_none(claims)
    THEN Handled(session, page_error(session, "FailedExternalUserInfo", e.error_url),
                 <<"exchange_code", "claims">>)
    ELSE
    LET external_user_info == [provider |-> client, provider_id |-> claims[1].subject,
                               name |-> claims[1].nickname, email |-> claims[1].email]
    IN Handled(session, page_external_login(session, external_user_info, e.target_url,
                                   e.error_url, e.remember_me, reply.identity),
               <<"exchange_code", "claims", "page_external_login">>)

\* page_oidc_auth, but the state parameter is compared before the nonce is looked for
page_oidc_auth_csrf_before_nonce(auth_session, client, query, reply) ==
    LET taken == take_external_login(auth_session).taken
        session == take_external_login(auth_session).session
    IN
    IF is_some(taken) /\ taken[1].csrf_state # query.state
    THEN Handled(session, page_error(session, "InvalidCSRF", taken[1].error_url), << >>)
    ELSE page_oidc_auth_no_csrf_check(auth_session, client, query, reply)

\* Callback of an OpenID Connect provider.  reply.token is the result of the code
\* exchange, reply.token[1].id_token the identity token in it (None: there is none or its
\* signature does not verify) with the nonce and the subject it carries.
page_oidc_auth(auth_session, client, query, reply) ==
    LET taken == take_external_login(auth_session).taken
        session == take_external_login(auth_session).session
    IN
    IF is_none(taken)
    THEN Handled(session, page_error(session, "MissingExternalLogin", None), << >>)
    ELSE
    LET e == taken[1] IN
    IF is_none(e.nonce)
    THEN Handled(session, page_error(session, "MissingNonce", e.error_url), << >>)
    ELSE IF e.csrf_state # query.state
    THEN Handled(session, page_error(session, "InvalidCSRF", e.error_url), << >>)
    ELSE IF is_none(reply.token)
    THEN Handled(session, page_internal_error(session, e.error_url), <<"exchange_code">>)
    ELSE
    LET id_token == reply.token[1].id_token
        claims == IF is_some(id_token) /\ id_token[1].nonce = e.nonce[1]
                  THEN id_token ELSE None
    IN
    IF is_none(claims)
    THEN Handled(session, page_error(session, "FailedExternalUserInfo", e.error_url),
                 <<"exchange_code", "claims">>)
    ELSE
    LET external_user_info == [provider |-> client, provider_id |-> claims[1].subject,
                               name |-> claims[1].nickname, email |-> claims[1].email]
    IN
    IF is_some(e.linked_user)
    THEN Handled(session, page_external_link(session, client, external_user_info.provider_id,
                                    e.target_url, e.error_url),
                 <<"exchange_code", "claims", "page_external_link">>)
    ELSE Handled(session, page_external_login(session, external_user_info, e.target_url,
                                     e.error_url, e.remember_me, reply.identity),
                 <<"exchange_code", "claims", "page_external_login">>)

\* page_oauth2_login, but an external login the session already has is left in place
page_oauth2_login_keeps_pending(auth_session, client, query, random) ==
    IF is_some(auth_session.user)
    THEN Handled(auth_session, page_error(auth_session, "LogoutRequired", query.error_url), << >>)
    ELSE
    LET session == IF is_some(auth_session.external_login) THEN auth_session
                   ELSE [auth_session EXCEPT !.external_login =
                        Some([pkce_code_verifier |-> random.pkce_code_verifier,
                              csrf_state |-> random.csrf_state,
                              nonce |-> None,
                              target_url |-> query.redirect_url,
                              error_url |-> query.error_url,
                              remember_me |-> IF is_some(query.remember_me)
                                              THEN query.remember_me[1] ELSE FALSE,
                              linked_user |-> None])]
    IN
    IF ~(is_none(session.user) /\ is_none(session.token_login))
    THEN Panicked
    ELSE Handled(session, page_redirect(session, client, AuthorizeUrl), << >>)

\* page_oauth2_login, but the external login is stored before the user is looked at
page_oauth2_login_writes_before_check(auth_session, client, query, random) ==
    LET session == [auth_session EXCEPT !.external_login =
                        Some([pkce_code_verifier |-> random.pkce_code_verifier,
                              csrf_state |-> random.csrf_state,
                              nonce |-> None,
                              target_url |-> query.redirect_url,
                              error_url |-> query.error_url,
                              remember_me |-> IF is_some(query.remember_me)
                                              THEN query.remember_me[1] ELSE FALSE,
                              linked_user |-> None])]
    IN
    IF is_some(session.user)
    THEN Handled(session, page_error(session, "LogoutRequired", query.error_url), << >>)
    ELSE IF ~(is_none(session.user) /\ is_none(session.token_login))
    THEN Panicked
    ELSE Handled(session, page_redirect(session, client, AuthorizeUrl), << >>)

\* Start of a login with an OAuth2 provider.  random is what new_random_sha256 and
\* CsrfToken::new_random draw.
page_oauth2_login(auth_session, client, query, random) ==
    IF is_some(auth_session.user)
    THEN Handled(auth_session, page_error(auth_session, "LogoutRequired", query.error_url), << >>)
    ELSE
    LET session == [auth_session EXCEPT !.external_login =
                        Some([pkce_code_verifier |-> random.pkce_code_verifier,
                              csrf_state |-> random.csrf_state,
                              nonce |-> None,
                              target_url |-> query.redirect_url,
                              error_url |-> query.error_url,
                              remember_me |-> IF is_some(query.remember_me)
                                              THEN query.remember_me[1] ELSE FALSE,
                              linked_user |-> None])]
    IN
    IF ~(is_none(session.user) /\ is_none(session.token_login))
    THEN Panicked
    ELSE Handled(session, page_redirect(session, client, AuthorizeUrl), << >>)

\* page_logout: the session is cleared and the cleared session is sent back
page_logout(auth_session) ==
    Handled(clear(auth_session), AuthPage(clear(auth_session), "LoggedOut", None), << >>)

(***************************************************************************)
(* The state.                                                              *)
(***************************************************************************)
VARIABLES
    config,         \* the AuthConfig the service was started with
    meta,           \* the result of AuthSessionMeta::new at startup
    now,            \* the clock (Utc::now)
    pc,             \* "idle", "extracted" (the session is decoded), "handling", "responded"
    headers,        \* the cookies of the request being extracted
    raw,            \* the components as decoded, before validation
    auth_session,   \* the AuthSession the extractor gave to the handler
    dropped,        \* the components the validation dropped
    handler,        \* the handler of the request
    input,          \* the query of the request and what the environment answered
    result,         \* what the handler did
    response,       \* the Set-Cookie directives of the response (None: no response)
    \* a user agent that follows one login flow
    jar,            \* the cookies the user agent holds
    saved,          \* the external-login cookie the user agent kept a copy of
    flow,           \* the external login the Start of the flow wrote
    callbacks,      \* the number of Callbacks that took the external login of the flow
    passed,         \* the number of those that passed the CSRF check
    superseded,     \* the external login a later Start of the user agent overwrote
    \* the identity store
    identities,     \* the committed rows of the table identities
    external_logins, \* the committed rows of the table external_logins
    tx,             \* of each caller: the transaction of the create_user it is in
    before,         \* of each caller: the tables when its call began
    returned,       \* of each caller: its last call and what it returned
    \* the token generator
    auth_session_config, \* the durations of the AuthSessionConfig the service is built with
    token_generator, \* the TokenGenerator of the service (None: not built)
    issued          \* the last token the generator issued, and when

session_vars == <<config, meta, now, pc, headers, raw, auth_session, dropped, handler, input, result, response>>
agent_vars == <<jar, saved, flow, callbacks, passed, superseded>>
store_vars == <<identities, external_logins, tx, before, returned>>
token_vars == <<auth_session_config, token_generator, issued>>
vars == <<session_vars, agent_vars, store_vars, token_vars>>

\* the callers of the identity store that may run at the same time
Callers == {"c1", "c2"}

NoHeaders == [user |-> None, external_login |-> None, token_login |-> None]
NoSession == AuthSession_new(None, None, None)
NoResult == Handled(NoSession, AuthPage(NoSession, "none", None), << >>)

\* The cookies a client can present under one name: none, one signed by somebody else,
\* one the service signed with the empty value (what create_jar sends for a component
\* that is None), one the service signed with a serialized component.
PresentedCookies(settings, forged, Jsons) ==
    {None, Some(Signed("forged", Some(forged))), Some(Signed(settings.secret, None))}
    \cup {Some(Signed(settings.secret, Some(j))) : j \in Jsons}

\* the flows whose cookie a client presents: started with both urls or with neither
PresentedExternalLogins ==
    {e \in ExternalLogins : is_some(e.target_url) = is_some(e.error_url)}

PresentedHeaders(m) ==
    [user : PresentedCookies(m.user, to_string_CurrentUser([user_id |-> 1]),
                             {to_string_CurrentUser(u) : u \in CurrentUsers}),
     external_login : PresentedCookies(m.external_login,
                             to_string_ExternalLogin(CHOOSE e \in PresentedExternalLogins : TRUE),
                             {to_string_ExternalLogin(e) : e \in PresentedExternalLogins}),
     token_login : PresentedCookies(m.token_login,
                             to_string_TokenLogin(CHOOSE t \in TokenLogins : TRUE),
                             {to_string_TokenLogin(t) : t \in TokenLogins})]

dropped_components(r, s) ==
    {c \in {"user", "external_login", "token_login"} : is_some(r[c]) /\ is_none(s[c])}

Init ==
    /\ config \in Configs
    /\ meta = AuthSessionMeta_new(config.home_url, config.api_url, config)
    /\ now = 0
    /\ pc = "idle"
    /\ headers = NoHeaders
    /\ raw = NoSession
    /\ auth_session = NoSession
    /\ dropped = {}
    /\ handler = "none"
    /\ input = None
    /\ result = NoResult
    /\ response = None
    /\ jar = NoHeaders
    /\ saved = None
    /\ flow = None
    /\ callbacks = 0
    /\ passed = 0
    /\ superseded = None
    /\ identities = {}
    /\ external_logins = {}
    /\ tx = [s \in Callers |-> None]
    /\ before = [s \in Callers |-> None]
    /\ returned = [s \in Callers |-> None]
    /\ auth_session_config = None
    /\ token_generator = None
    /\ issued = None

\* time passes between requests
Tick ==
    /\ pc = "idle"
    /\ now < MaxTime
    /\ now' = now + 1
    /\ UNCHANGED <<config, meta, pc, headers, raw, auth_session, dropped, handler, input, result, response>>
    /\ UNCHANGED <<agent_vars, store_vars, token_vars>>

\* A request with the cookies h arrives: the extractor decodes them.
Arrive(h) ==
    /\ pc = "idle"
    /\ meta.ok
    /\ headers' = h
    /\ raw' = raw_components(h, meta.value)
    /\ auth_session' = from_request_parts(h, meta.value, now)
    /\ dropped' = dropped_components(raw', auth_session')
    /\ pc' = "extracted"
    /\ UNCHANGED <<config, meta, now, handler, input, result, response>>

\* A request arrives from any client.
Extract ==
    /\ pc = "idle"
    /\ meta.ok
    /\ \E h \in PresentedHeaders(meta.value) : Arrive(h)
    /\ UNCHANGED <<agent_vars, store_vars, token_vars>>

\* The router calls the handler of the request with the extracted session; the cookies
\* of the request are not read again.
Dispatch ==
    /\ pc = "extracted"
    /\ pc' = "handling"
    /\ headers' = NoHeaders
    /\ raw' = NoSession
    /\ UNCHANGED <<config, meta, now, auth_session, dropped, handler, input, result, response>>
    /\ UNCHANGED <<agent_vars, store_vars, token_vars>>

\* The handler ran and returned r: its page is turned into the response (a handler that
\* panicked sends no cookies).
Respond(name, in, r) ==
    /\ handler' = name
    /\ input' = in
    /\ result' = r
    /\ response' = IF r.panicked THEN None
                   ELSE Some(into_response_parts(r.page.auth_session, meta.value, now))
    /\ pc' = "responded"
    /\ UNCHANGED <<config, meta, now, headers, raw, auth_session, dropped>>
    /\ UNCHANGED <<agent_vars, store_vars, token_vars>>

OAuth2Replies ==
    [token : {None, Some("access")}, user_info : {None}, identity : {1}]
    \cup [token : {Some("access")},
          user_info : UNION {{Some(i) : i \in ExternalUserInfos(p)} : p \in OAuth2Providers},
          identity : Users]

IdTokens ==
    {t \in [nonce : Nonces \cup {"n0"}, subject : ProviderIds,
            nickname : Option(ExtNames), email : Option(ExtEmails)] :
        is_some(t.nickname) = is_some(t.email)}

OIDCReplies ==
    [token : {None, Some([id_token |-> None])}, identity : {1}]
    \cup [token : {Some([id_token |-> Some(t)]) : t \in IdTokens}, identity : Users]

AuthQueries == [code : Codes, state : CsrfTokens]

\* GET /auth/<provider>/auth of an OAuth2 provider
OAuth2Auth ==
    /\ pc = "handling"
    /\ \E client \in OAuth2Providers, query \in AuthQueries, reply \in OAuth2Replies :
        /\ query.code = "bad" => is_none(reply.token)
        /\ Respond("page_oauth2_auth", [query |-> query, reply |-> reply],
                   page_oauth2_auth(auth_session, client, query, reply))

\* GET /auth/<provider>/auth of an OpenID Connect provider
OIDCAuth ==
    /\ pc = "handling"
    /\ \E client \in OIDCProviders, query \in AuthQueries, reply \in OIDCReplies :
        /\ query.code = "bad" => is_none(reply.token)
        /\ Respond("page_oidc_auth", [query |-> query, reply |-> reply],
                   page_oidc_auth(auth_session, client, query, reply))

LoginQueries == [redirect_url : Option(TargetUrls), error_url : Option(ErrorUrls),
                 remember_me : Option(BOOLEAN)]
Randoms == [pkce_code_verifier : Verifiers, csrf_state : CsrfTokens]

\* GET /auth/<provider>/login of an OAuth2 provider
OAuth2Login ==
    /\ pc = "handling"
    /\ \E client \in OAuth2Providers, query \in LoginQueries, random \in Randoms :
        Respond("page_oauth2_login", [query |-> query, random |-> random],
                page_oauth2_login(auth_session, client, query, random))

\* GET /auth/logout
Logout ==
    /\ pc = "handling"
    /\ Respond("page_logout", None, page_logout(auth_session))

\* the request is over; nothing of it is kept on the server
Done ==
    /\ pc = "responded"
    /\ pc' = "idle"
    /\ headers' = NoHeaders
    /\ raw' = NoSession
    /\ auth_session' = NoSession
    /\ dropped' = {}
    /\ handler' = "none"
    /\ input' = None
    /\ result' = NoResult
    /\ response' = None
    /\ UNCHANGED <<config, meta, now>>
    /\ UNCHANGED <<agent_vars, store_vars, token_vars>>

Next == Tick \/ Extract \/ Dispatch \/ OAuth2Auth \/ OIDCAuth \/ OAuth2Login \/ Logout \/ Done

Spec == Init /\ [][Next]_vars

(***************************************************************************)
(* Properties of the session model.                                        *)
(***************************************************************************)
Components == {"user", "external_login", "token_login"}

\* the cookie decodes: it is there, the service's secret for its name signed it and its
\* value is a JSON object (every object the service signs under a name is of its type)
Decodes(cookie, settings) ==
    /\ is_some(cookie)
    /\ cookie[1].signed_by = settings.secret
    /\ is_some(cookie[1].value)

\* C1: in the session Decode returns, a user comes with a token login that has not
\* expired and is of the same user; a user cookie without such a token is dropped.
C1_UserNeedsValidToken ==
    pc \in {"extracted", "handling"} =>
        /\ is_some(auth_session.user) =>
              /\ is_some(auth_session.token_login)
              /\ auth_session.token_login[1].expires >= now
              /\ auth_session.token_login[1].user_id = auth_session.user[1].user_id
        /\ pc = "extracted" =>
              LET t == headers.token_login
                  valid == /\ Decodes(t, meta.value.token_login)
                           /\ t[1].value[1].e >= now
                           /\ Decodes(headers.user, meta.value.user)
                           /\ t[1].value[1].u = headers.user[1].value[1].user_id
              IN ~valid => is_none(auth_session.user)

\* the user cookie decodes, the token of the same user has expired: the user is dropped
C1_Witness ==
    /\ pc = "extracted"
    /\ is_some(raw.user)
    /\ is_some(raw.token_login)
    /\ raw.token_login[1].user_id = raw.user[1].user_id
    /\ raw.token_login[1].expires < now
    /\ is_none(auth_session.user)

\* C2: in the session Decode returns, the linked user of an external login is the
\* session's user, both taken as optional values.
C2_ExternalLoginMatchesUser ==
    pc \in {"extracted", "handling"} =>
        (is_some(auth_session.external_login) =>
            map_user_id(auth_session.external_login[1].linked_user)
                = map_user_id(auth_session.user))

\* a linking flow survives beside the user it links to
C2_Witness ==
    /\ pc = "extracted"
    /\ is_some(auth_session.external_login)
    /\ is_some(auth_session.external_login[1].linked_user)
    /\ is_some(auth_session.user)

\* C3: the token login is kept exactly when its cookie decodes and expires >= now, and
\* then it is the cookie's token; nothing but the token cookie and the clock decides it.
C3_TokenKeptIffUnexpired ==
    pc = "extracted" =>
        LET t == headers.token_login
            kept == Decodes(t, meta.value.token_login) /\ t[1].value[1].e >= now
        IN auth_session.token_login =
              IF kept THEN Some([user_id |-> t[1].value[1].u, token |-> t[1].value[1].t,
                                 expires |-> t[1].value[1].e])
              ELSE None

\* a token that expires now is kept, whatever the other cookies are (here: a user cookie
\* of another user and an external login that is dropped)
C3_Witness ==
    /\ pc = "extracted"
    /\ is_some(auth_session.token_login)
    /\ auth_session.token_login[1].expires = now
    /\ is_some(raw.user)
    /\ raw.user[1].user_id # auth_session.token_login[1].user_id
    /\ "external_login" \in dropped

\* the three rules of the specification, each on the result of the one before
Rule1(s, t) ==
    IF is_some(s.token_login) /\ s.token_login[1].expires < t
    THEN [s EXCEPT !.token_login = None] ELSE s
Rule2(s) ==
    IF map_user_id(s.token_login) # map_user_id(s.user) THEN [s EXCEPT !.user = None] ELSE s
Rule3(s) ==
    IF /\ is_some(s.external_login)
       /\ map_user_id(s.external_login[1].linked_user) # map_user_id(s.user)
    THEN [s EXCEPT !.external_login = None] ELSE s

\* the example of the claim: an expired token of A, the user A, a flow linking to A
C4_Example ==
    /\ is_some(raw.token_login) /\ is_some(raw.user) /\ is_some(raw.external_login)
    /\ raw.token_login[1].expires < now
    /\ raw.token_login[1].user_id = raw.user[1].user_id
    /\ raw.external_login[1].linked_user = Some(raw.user[1])

\* C4: Decode's validation is rule 1, then rule 2, then rule 3, each on the result of
\* the one before; in the example all three components are absent.
C4_RulesInOrder ==
    pc = "extracted" =>
        /\ auth_session = Rule3(Rule2(Rule1(raw, now)))
        /\ C4_Example => auth_session = NoSession

C4_Witness ==
    /\ pc = "extracted"
    /\ C4_Example
    /\ dropped = Components

CookieIsBad(cookie, settings) == ~Decodes(cookie, settings)

\* C5: Decode always returns a session bundle; a cookie that is absent, malformed or
\* not signed by the service gives an absent component, and a cookie that decodes gives
\* its component as decoded whatever the other two cookies are.
C5_DecodeNeverFails ==
    pc = "extracted" =>
        /\ auth_session \in [user : Option(CurrentUsers),
                             external_login : Option(ExternalLogins),
                             token_login : Option(TokenLogins)]
        /\ \A c \in Components :
              /\ CookieIsBad(headers[c], meta.value[c]) => is_none(raw[c])
              /\ Decodes(headers[c], meta.value[c]) =>
                    /\ is_some(raw[c])
                    /\ to_string(raw[c][1]) = headers[c][1].value[1]

\* a forged token cookie and a signed empty external-login cookie beside a user cookie
\* that decodes
C5_Witness ==
    /\ pc = "extracted"
    /\ is_some(headers.token_login) /\ headers.token_login[1].signed_by = "forged"
    /\ is_some(headers.external_login) /\ is_none(headers.external_login[1].value)
    /\ is_some(raw.user)
    /\ is_none(raw.token_login) /\ is_none(raw.external_login)

(***************************************************************************)
(* Properties of the response.                                             *)
(***************************************************************************)
\* the Set-Cookie directive deletes the cookie: no value, an expiry in the past
IsDeletion(cookie) ==
    /\ is_none(cookie.value.value)
    /\ is_some(cookie.expires)
    /\ cookie.expires[1] < now

\* the directive of each component, by its place in the response
DirectiveOf == [user |-> 1, external_login |-> 2, token_login |-> 3]

\* the cookies a client holds after the response, presented again
HeadersFrom(directives) ==
    [c \in Components |->
        IF IsDeletion(directives[DirectiveOf[c]]) THEN None
        ELSE Some(directives[DirectiveOf[c]].value)]

\* C6: Encode emits three Set-Cookie directives, one per component: a component that is
\* present with its serialized value, one that is absent as a cookie that has expired
\* already; after clear() all three are deletions.
C6_ThreeDirectives ==
    pc = "responded" /\ is_some(response) =>
        LET session == result.page.auth_session
            directives == response[1]
        IN /\ Len(directives) = 3
           /\ \A c \in Components :
                LET cookie == directives[DirectiveOf[c]] IN
                /\ cookie.name = meta.value[c].name
                /\ is_some(session[c]) =>
                      /\ cookie.value = Signed(meta.value[c].secret, Some(to_string(session[c][1])))
                      /\ ~IsDeletion(cookie)
                /\ is_none(session[c]) => IsDeletion(cookie)
           /\ raw_components(HeadersFrom(directives), meta.value) = session
           /\ handler = "page_logout" => \A i \in 1..3 : IsDeletion(directives[i])

\* a logout of a session that had all three components
C6_Witness ==
    /\ pc = "responded"
    /\ handler = "page_logout"
    /\ \A c \in Components : is_some(auth_session[c])
    /\ is_some(response)
    /\ \A i \in 1..3 : IsDeletion(response[1][i])

\* C7: every cookie Encode emits is Secure, HttpOnly and SameSite=Lax; the user cookie is
\* scoped to the home domain and the path "/", the external-login and the token-login
\* cookie to the domain and the path of the auth service.
C7_CookieAttributes ==
    pc = "responded" /\ is_some(response) =>
        LET directives == response[1] IN
        /\ \A i \in DOMAIN directives :
              /\ directives[i].secure
              /\ directives[i].http_only
              /\ directives[i].same_site = "Lax"
        /\ directives[1].domain = config.home_url.domain[1]
        /\ directives[1].path = "/"
        /\ \A i \in {2, 3} :
              /\ directives[i].domain = config.api_url.domain[1]
              /\ directives[i].path = config.api_url.path

\* a response that carries a token, a flow and deletes the user cookie, of a service
\* whose auth domain is not its home domain
C7_Witness ==
    /\ pc = "responded"
    /\ is_some(response)
    /\ config.api_url.domain # config.home_url.domain
    /\ IsDeletion(response[1][1])
    /\ ~IsDeletion(response[1][3])

(***************************************************************************)
(* Properties of the callback.                                             *)
(***************************************************************************)
Callbacks == {"page_oauth2_auth", "page_oidc_auth"}

\* C8: whatever the outcome of Callback is, the session handed to it has no external
\* login.
C8_CallbackConsumesFlow ==
    pc = "responded" /\ handler \in Callbacks =>
        /\ ~result.panicked
        /\ result.page.outcome \in {"MissingExternalLogin", "MissingNonce", "InvalidCSRF",
                                    "InternalError", "FailedExternalUserInfo",
                                    "Linked", "LoggedIn"}
        /\ is_none(result.handed.external_login)

\* a Callback that found a flow and failed on the user info
C8_Witness ==
    /\ pc = "responded"
    /\ handler = "page_oauth2_auth"
    /\ is_some(auth_session.external_login)
    /\ result.page.outcome = "FailedExternalUserInfo"
    /\ is_none(result.handed.external_login)

\* a flow is in progress and the state parameter is not its csrf_state
CsrfMismatch ==
    /\ pc = "responded"
    /\ handler \in Callbacks
    /\ is_some(auth_session.external_login)
    /\ auth_session.external_login[1].csrf_state # input.query.state

\* C9 as claimed: a state parameter that differs from the stored csrf_state always yields
\* InvalidCSRF, for both kinds of provider and whatever else is stored.
C9_Original == CsrfMismatch => result.page.outcome = "InvalidCSRF"

\* C9: a state parameter that differs from the stored csrf_state yields InvalidCSRF for
\* an OAuth2 provider, and for an OpenID Connect provider when a nonce is stored; with
\* no nonce stored the OpenID Connect callback yields MissingNonce.  No call is made.
C9_CsrfMismatchRejected ==
    CsrfMismatch =>
        /\ result.page.outcome =
              IF handler = "page_oidc_auth" /\ is_none(auth_session.external_login[1].nonce)
              THEN "MissingNonce" ELSE "InvalidCSRF"
        /\ result.calls = << >>

\* an OpenID Connect callback with a good code, a nonce and the wrong state
C9_Witness ==
    /\ CsrfMismatch
    /\ handler = "page_oidc_auth"
    /\ is_some(auth_session.external_login[1].nonce)
    /\ input.query.code = "good"
    /\ result.page.outcome = "InvalidCSRF"

\* C10: a Callback on a session without external login fails with MissingExternalLogin;
\* it calls neither the provider nor the pages that use the identity store.
C10_MissingExternalLogin ==
    pc = "responded" /\ handler \in Callbacks /\ is_none(auth_session.external_login) =>
        /\ result.page.outcome = "MissingExternalLogin"
        /\ result.calls = << >>

\* the cookie of the flow was there and rule 3 dropped it
C10_Witness ==
    /\ pc = "responded"
    /\ handler = "page_oauth2_auth"
    /\ "external_login" \in dropped
    /\ input.query.code = "good"
    /\ is_some(input.reply.token)
    /\ result.page.outcome = "MissingExternalLogin"

\* C11: the callback of an OpenID Connect provider fails with MissingNonce whenever the
\* external login of the session has no nonce, whatever the query and the provider's
\* answer are, and then makes no call: no code exchange, no identity resolution.  The
\* Start of an OAuth2 provider stores such an external login.
C11_MissingNonce ==
    /\ pc = "responded" /\ handler = "page_oidc_auth"
            /\ is_some(auth_session.external_login)
            /\ is_none(auth_session.external_login[1].nonce) =>
          /\ ~result.panicked
          /\ result.page.outcome = "MissingNonce"
          /\ result.calls = << >>
    /\ pc = "responded" /\ handler = "page_oauth2_login"
            /\ result.page.outcome = "Redirect" =>
          /\ is_some(result.handed.external_login)
          /\ is_none(result.handed.external_login[1].nonce)

\* an OpenID Connect callback with the right state, a good code and a verified identity
\* token, on an external login without nonce
C11_Witness ==
    /\ pc = "responded"
    /\ handler = "page_oidc_auth"
    /\ is_some(auth_session.external_login)
    /\ is_none(auth_session.external_login[1].nonce)
    /\ auth_session.external_login[1].csrf_state = input.query.state
    /\ input.query.code = "good"
    /\ is_some(input.reply.token)
    /\ is_some(input.reply.token[1].id_token)
    /\ result.page.outcome = "MissingNonce"

(***************************************************************************)
(* Properties of the Start.                                                *)
(***************************************************************************)
\* C12: a Start of a login on a session that has a user is rejected with LogoutRequired;
\* the handler makes no call and hands the session to the error page as it was decoded,
\* so the verifier and the CSRF token drawn for this Start are not stored, and the page
\* is not the redirect to the provider.
C12_LogoutRequired ==
    pc = "responded" /\ handler = "page_oauth2_login" /\ is_some(auth_session.user) =>
        /\ ~result.panicked
        /\ result.page.outcome = "LogoutRequired"
        /\ result.page.url = input.query.error_url
        /\ result.page.url # AuthorizeUrl
        /\ result.handed = auth_session
        /\ result.calls = << >>

\* a Start by a logged-in user whose session has no external login: none is there after
C12_Witness ==
    /\ pc = "responded"
    /\ handler = "page_oauth2_login"
    /\ is_some(auth_session.user)
    /\ is_none(auth_session.external_login)
    /\ is_some(input.query.redirect_url)
    /\ result.page.outcome = "LogoutRequired"
    /\ is_none(result.handed.external_login)

(***************************************************************************)
(* A user agent that follows one login flow.  It presents the cookies the  *)
(* service sent it; it may keep a copy of the external-login cookie and    *)
(* present the copy in place of what it holds now.                         *)
(***************************************************************************)
MaxCallbacks == 2

\* the outcomes of a Callback that got past the CSRF check
PastCsrfCheck == {"InternalError", "FailedExternalUserInfo", "Linked", "LoggedIn"}

\* the request of result took the external login of the flow
TookFlow ==
    /\ handler \in Callbacks
    /\ is_some(flow)
    /\ auth_session.external_login = flow

\* the user agent keeps a copy of the external-login cookie it holds
AgentKeep ==
    /\ pc = "idle"
    /\ is_some(jar.external_login)
    /\ saved # jar.external_login
    /\ saved' = jar.external_login
    /\ UNCHANGED <<session_vars, jar, flow, callbacks, passed, superseded, store_vars, token_vars>>

\* the user agent sends a request with the cookies it holds
AgentSend ==
    /\ callbacks < MaxCallbacks
    /\ Arrive(jar)
    /\ UNCHANGED <<agent_vars, store_vars, token_vars>>

\* the user agent sends a request with the copy in place of the external-login cookie
AgentReplay ==
    /\ callbacks < MaxCallbacks
    /\ is_some(saved)
    /\ Arrive([jar EXCEPT !.external_login = saved])
    /\ UNCHANGED <<agent_vars, store_vars, token_vars>>

\* the one Start of the flow
AgentStart ==
    /\ is_none(flow)
    /\ OAuth2Login

\* the user agent gets the response and stores its cookies
AgentDone ==
    /\ pc = "responded"
    /\ jar' = IF is_some(response) THEN HeadersFrom(response[1]) ELSE jar
    /\ flow' = IF handler = "page_oauth2_login" /\ result.page.outcome = "Redirect"
               THEN result.handed.external_login ELSE flow
    /\ superseded' = IF handler = "page_oauth2_login" /\ result.page.outcome = "Redirect"
                     THEN flow ELSE superseded
    /\ callbacks' = IF TookFlow THEN callbacks + 1 ELSE callbacks
    /\ passed' = IF TookFlow /\ result.page.outcome \in PastCsrfCheck
                 THEN passed + 1 ELSE passed
    /\ pc' = "idle"
    /\ headers' = NoHeaders
    /\ raw' = NoSession
    /\ auth_session' = NoSession
    /\ dropped' = {}
    /\ handler' = "none"
    /\ input' = None
    /\ result' = NoResult
    /\ response' = None
    /\ UNCHANGED <<config, meta, now, saved, store_vars, token_vars>>

AgentNext ==
    \/ Tick \/ AgentKeep \/ AgentSend \/ AgentReplay \/ Dispatch
    \/ AgentStart \/ OAuth2Auth \/ OIDCAuth \/ Logout \/ AgentDone

AgentSpec == Init /\ [][AgentNext]_vars

Names == {"a", "b"}
Emails == {"e1", "e2"}
ExternalLoginInfos == [provider : OAuth2Providers \cup OIDCProviders, provider_id : ProviderIds]

\* to_sql, but every kind is written as the number of Studio
to_sql_IdentityKind_studio(kind) == 2

\* ToSql and FromSql for IdentityKind
to_sql_IdentityKind(kind) == IF kind = "User" THEN 1 ELSE 2
from_sql_IdentityKind(value) ==
    IF value = 1 THEN Ok("User") ELSE IF value = 2 THEN Ok("Studio")
    ELSE Err("Invalid value for IdentityKind")

\* the SQL type of each column of the two tables
ColumnType ==
    [user_id |-> "UUID", kind |-> "INT2", name |-> "VARCHAR", email |-> "VARCHAR",
     email_confirmed |-> "BOOL", created |-> "TIMESTAMPTZ",
     provider |-> "VARCHAR", provider_id |-> "VARCHAR", linked |-> "TIMESTAMPTZ"]

\* SELECT columns: the row a query returns for the table row r
Select(columns, r) ==
    [i \in 1..Len(columns) |-> [ty |-> ColumnType[columns[i]], value |-> r[columns[i]]]]

\* Row::try_get(idx) into a Rust type that accepts the SQL type ty (idx counts from 0)
try_get(row, idx, ty) ==
    IF idx + 1 > Len(row) THEN Err("ColumnNotFound")
    ELSE IF row[idx + 1].ty # ty THEN Err("WrongType")
    ELSE Ok(row[idx + 1].value)

\* Identity::from_row
Identity_from_row(row) ==
    LET user_id == try_get(row, 0, "UUID")
        kind_sql == try_get(row, 1, "INT2")
        kind == IF kind_sql.ok THEN from_sql_IdentityKind(kind_sql.value) ELSE kind_sql
        name == try_get(row, 2, "VARCHAR")
        email == try_get(row, 3, "VARCHAR")
        is_email_confirmed == try_get(row, 4, "BOOL")
        creation == try_get(row, 5, "TIMESTAMPTZ")
    IN
    IF ~(user_id.ok /\ kind.ok /\ name.ok /\ email.ok /\ is_email_confirmed.ok /\ creation.ok)
    THEN Err("DBError")
    ELSE Ok([user_id |-> user_id.value, kind |-> kind.value, name |-> name.value,
             email |-> email.value, is_email_confirmed |-> is_email_confirmed.value,
             creation |-> creation.value])

\* the row INSERT INTO identities (user_id, kind, created, name, email) adds;
\* email_confirmed takes the default of the column
identities_row(user_id, kind, name, email, utc_now) ==
    [user_id |-> user_id, kind |-> to_sql_IdentityKind(kind), name |-> name, email |-> email,
     email_confirmed |-> FALSE, created |-> utc_now]

\* the row INSERT INTO external_logins (user_id, provider, provider_id, linked) adds
external_logins_row(user_id, external_login, utc_now) ==
    [user_id |-> user_id, provider |-> external_login.provider,
     provider_id |-> external_login.provider_id, linked |-> utc_now]

\* the constraints of identities that the row would violate among rows (a NULL email
\* collides with nothing)
identities_violations(rows, row) ==
    {c \in {"identities_pkey", "idx_name", "idx_email"} :
        \E r \in rows :
            \/ c = "identities_pkey" /\ r.user_id = row.user_id
            \/ c = "idx_name" /\ r.name = row.name
            \/ c = "idx_email" /\ is_some(row.email) /\ r.email = row.email}

\* the unique index of external_logins
external_logins_violations(rows, row) ==
    {c \in {"idx_provider_provider_id"} :
        \E r \in rows : r.provider = row.provider /\ r.provider_id = row.provider_id}

\* the foreign key of external_logins: the user of the row is in identities
external_logins_fkey(identity_rows, row) == \E r \in identity_rows : r.user_id = row.user_id

\* identities_error, but the arms of idx_name and idx_email are exchanged
identities_error_name_as_email(constraint) ==
    IF constraint = "identities_pkey" THEN "UserIdConflict"
    ELSE IF constraint = "idx_name" THEN "LinkEmailConflict"
    ELSE IF constraint = "idx_email" THEN "NameConflict"
    ELSE "DBError"

\* the error create_user returns for a violated constraint of identities
identities_error(constraint) ==
    IF constraint = "identities_pkey" THEN "UserIdConflict"
    ELSE IF constraint = "idx_name" THEN "NameConflict"
    ELSE IF constraint = "idx_email" THEN "LinkEmailConflict"
    ELSE "DBError"

\* the committed tables
Tables == [identities |-> identities, external_logins |-> external_logins]

IdentityColumns == <<"user_id", "kind", "name", "email", "email_confirmed", "created">>

FindIdentities ==
    [by : {"UserId"}, user_id : Users] \cup [by : {"Email"}, email : Emails]
    \cup [by : {"Name"}, name : Names]
    \cup [by : {"ExternalLogin"}, external_login : ExternalLoginInfos]

\* the rows FindById, FindByEmail, FindByName and FindByLink select
find_rows(tables, find) ==
    IF find.by = "UserId"
    THEN {Select(IdentityColumns, r) : r \in {i \in tables.identities : i.user_id = find.user_id}}
    ELSE IF find.by = "Email"
    THEN {Select(IdentityColumns, r) : r \in {i \in tables.identities : i.email = Some(find.email)}}
    ELSE IF find.by = "Name"
    THEN {Select(IdentityColumns, r) : r \in {i \in tables.identities : i.name = find.name}}
    ELSE {Select(IdentityColumns, j[2]) :
            j \in {p \in tables.external_logins \X tables.identities :
                     /\ p[1].user_id = p[2].user_id
                     /\ p[1].provider = find.external_login.provider
                     /\ p[1].provider_id = find.external_login.provider_id}}

\* Client::query_opt: no row, the one row, or an error for more rows than one
query_opt(rows) ==
    IF rows = {} THEN Ok(None)
    ELSE IF Cardinality(rows) = 1 THEN Ok(Some(CHOOSE r \in rows : TRUE))
    ELSE Err("DBError")

\* IdentityManager::find
find(tables, find_identity) ==
    LET identity == query_opt(find_rows(tables, find_identity)) IN
    IF ~identity.ok THEN Err("DBError")
    ELSE IF is_none(identity.value) THEN Ok(None)
    ELSE IF ~Identity_from_row(identity.value[1]).ok THEN Err("DBError")
    ELSE Ok(Some(Identity_from_row(identity.value[1]).value))

\* what a call that is one statement does: what it returns and the tables it leaves
Done1(res, tables) == [result |-> res, tables |-> tables]

\* link_user, but a pair that is linked already is bound to the new user
link_user_rebinds(tables, user_id, external_login, utc_now, fails) ==
    LET row == external_logins_row(user_id, external_login, utc_now)
        others == {r \in tables.external_logins :
                      ~(r.provider = row.provider /\ r.provider_id = row.provider_id)}
    IN
    IF fails THEN Done1(Err("DBError"), tables)
    ELSE IF ~external_logins_fkey(tables.identities, row)
    THEN Done1(Err("DBError"), tables)
    ELSE Done1(Ok("unit"), [tables EXCEPT !.external_logins = others \cup {row}])

\* link_user, but every constraint the insert violates is taken for the unique index
link_user_fkey_as_conflict(tables, user_id, external_login, utc_now, fails) ==
    LET row == external_logins_row(user_id, external_login, utc_now) IN
    IF fails THEN Done1(Err("DBError"), tables)
    ELSE IF external_logins_violations(tables.external_logins, row) # {}
    THEN Done1(Err("LinkProviderConflict"), tables)
    ELSE IF ~external_logins_fkey(tables.identities, row)
    THEN Done1(Err("LinkProviderConflict"), tables)
    ELSE Done1(Ok("unit"), [tables EXCEPT !.external_logins = @ \cup {row}])

\* IdentityManager::link_user; fails tells that the statement fails for a reason that is
\* no constraint of the table.  The unique index is checked when the row is inserted, the
\* foreign key at the end of the statement.
link_user(tables, user_id, external_login, utc_now, fails) ==
    LET row == external_logins_row(user_id, external_login, utc_now) IN
    IF fails THEN Done1(Err("DBError"), tables)
    ELSE IF external_logins_violations(tables.external_logins, row) # {}
    THEN Done1(Err("LinkProviderConflict"), tables)
    ELSE IF ~external_logins_fkey(tables.identities, row)
    THEN Done1(Err("DBError"), tables)
    ELSE Done1(Ok("unit"), [tables EXCEPT !.external_logins = @ \cup {row}])

\* delete_identity_cascaded, but only the row of identities is deleted
delete_identity_not_cascaded(tables, user_id) ==
    [identities |-> {r \in tables.identities : r.user_id # user_id},
     external_logins |-> tables.external_logins]

\* DELETE FROM identities WHERE user_id = $1, with the cascade of the foreign key of
\* external_logins
delete_identity_cascaded(tables, user_id) ==
    [identities |-> {r \in tables.identities : r.user_id # user_id},
     external_logins |-> {r \in tables.external_logins : r.user_id # user_id}]

\* IdentityManager::delete_identity
delete_identity(tables, user_id, fails) ==
    IF fails THEN Done1(Err("DBError"), tables)
    ELSE Done1(Ok("unit"), delete_identity_cascaded(tables, user_id))

\* pending_identities, but an insert does not see the rows of open transactions
pending_identities_unseen(s) == {}

\* the rows the transactions of the other callers have inserted and not yet committed
pending_identities(s) ==
    {tx[o][1].identity[1] :
        o \in {c \in Callers \ {s} : is_some(tx[c]) /\ is_some(tx[c][1].identity)}}
pending_links(s) ==
    {tx[o][1].link[1] :
        o \in {c \in Callers \ {s} : is_some(tx[c]) /\ is_some(tx[c][1].link)}}

\* Transaction::commit: the rows the transaction inserted join the tables
commit(tables, t) ==
    [identities |-> tables.identities
                        \cup (IF is_some(t.identity) THEN {t.identity[1]} ELSE {}),
     external_logins |-> tables.external_logins
                        \cup (IF is_some(t.link) THEN {t.link[1]} ELSE {})]

\* rollback, but the rows the transaction inserted stay
rollback_keeps_rows(tables, t) == commit(tables, t)

\* Transaction::rollback: the rows the transaction inserted are gone
rollback(tables, t) == tables

\* drop, but the rows of a transaction that goes out of scope are committed
drop_commits(tables, t) == commit(tables, t)

\* the transaction goes out of scope at a return without commit or rollback: the
\* database rolls it back
drop(tables, t) == tables

\* the arguments of the create_user the transaction t belongs to
create_user_args(t) ==
    [user_id |-> t.user_id, user_name |-> t.user_name, email |-> t.email,
     external_login |-> t.external_login]

\* the call of caller s returns: the tables are left as given
Return(s, op, args, res, tables) ==
    /\ returned' = [returned EXCEPT ![s] = Some([op |-> op, args |-> args, result |-> res])]
    /\ identities' = tables.identities
    /\ external_logins' = tables.external_logins

\* create_user up to client.transaction(): the transaction is open
CreateUser_Begin(s) ==
    /\ is_none(tx[s])
    /\ is_none(returned[s])
    /\ \E user_id \in Users, user_name \in Names, email \in Option(Emails),
          external_login \in Option(ExternalLoginInfos) :
        tx' = [tx EXCEPT ![s] = Some([user_id |-> user_id, user_name |-> user_name,
                                      email |-> email, external_login |-> external_login,
                                      at |-> "insert_identity",
                                      identity |-> None, link |-> None])]
    /\ before' = [before EXCEPT ![s] = Some(Tables)]
    /\ UNCHANGED <<identities, external_logins, returned, session_vars, agent_vars, token_vars>>

\* create_user: the insert into identities.  A row that collides with a row of a
\* transaction still open waits for that transaction; of several violated constraints
\* the database reports one.
CreateUser_InsertIdentity(s) ==
    /\ is_some(tx[s])
    /\ tx[s][1].at = "insert_identity"
    /\ LET t == tx[s][1]
           row == identities_row(t.user_id, "User", t.user_name, t.email, now)
       IN
       \/ /\ \E c \in identities_violations(identities, row) :
                Return(s, "create_user", create_user_args(t), Err(identities_error(c)),
                       rollback(Tables, t))
          /\ tx' = [tx EXCEPT ![s] = None]
       \/ /\ Return(s, "create_user", create_user_args(t), Err("DBError"), drop(Tables, t))
          /\ tx' = [tx EXCEPT ![s] = None]
       \/ /\ identities_violations(identities \cup pending_identities(s), row) = {}
          /\ tx' = [tx EXCEPT ![s] = Some([t EXCEPT !.identity = Some(row),
                         !.at = IF is_some(t.external_login) THEN "insert_link" ELSE "commit"])]
          /\ UNCHANGED <<identities, external_logins, returned>>
    /\ UNCHANGED <<before, session_vars, agent_vars, token_vars>>

\* create_user: the insert into external_logins
CreateUser_InsertLink(s) ==
    /\ is_some(tx[s])
    /\ tx[s][1].at = "insert_link"
    /\ LET t == tx[s][1]
           row == external_logins_row(t.user_id, t.external_login[1], now)
       IN
       \/ /\ external_logins_violations(external_logins, row) # {}
          /\ Return(s, "create_user", create_user_args(t), Err("LinkProviderConflict"),
                    rollback(Tables, t))
          /\ tx' = [tx EXCEPT ![s] = None]
       \/ /\ Return(s, "create_user", create_user_args(t), Err("DBError"), drop(Tables, t))
          /\ tx' = [tx EXCEPT ![s] = None]
       \/ /\ external_logins_violations(external_logins \cup pending_links(s), row) = {}
          /\ tx' = [tx EXCEPT ![s] = Some([t EXCEPT !.link = Some(row), !.at = "commit"])]
          /\ UNCHANGED <<identities, external_logins, returned>>
    /\ UNCHANGED <<before, session_vars, agent_vars, token_vars>>

\* create_user: the commit and the Identity returned
CreateUser_Commit(s) ==
    /\ is_some(tx[s])
    /\ tx[s][1].at = "commit"
    /\ LET t == tx[s][1] IN
       Return(s, "create_user", create_user_args(t),
              Ok([user_id |-> t.user_id, name |-> t.user_name, email |-> t.email,
                  is_email_confirmed |-> FALSE, kind |-> "User",
                  creation |-> t.identity[1].created]),
              commit(Tables, t))
    /\ tx' = [tx EXCEPT ![s] = None]
    /\ UNCHANGED <<before, session_vars, agent_vars, token_vars>>

\* a call that is one statement: it begins and returns in one step
Call1(s, op, args, done) ==
    /\ is_none(tx[s])
    /\ is_none(returned[s])
    /\ before' = [before EXCEPT ![s] = Some(Tables)]
    /\ Return(s, op, args, done.result, done.tables)
    /\ UNCHANGED <<tx, session_vars, agent_vars, token_vars>>

Find(s) ==
    /\ is_none(returned[s])
    /\ \E find_identity \in FindIdentities :
        Call1(s, "find", find_identity, Done1(find(Tables, find_identity), Tables))

LinkUser(s) ==
    /\ is_none(returned[s])
    /\ \E user_id \in Users, external_login \in ExternalLoginInfos, fails \in BOOLEAN :
        /\ external_logins_violations(pending_links(s),
               external_logins_row(user_id, external_login, now)) = {}
        /\ Call1(s, "link_user", [user_id |-> user_id, external_login |-> external_login],
                 link_user(Tables, user_id, external_login, now, fails))

DeleteIdentity(s) ==
    /\ is_none(returned[s])
    /\ \E user_id \in Users, fails \in BOOLEAN :
        Call1(s, "delete_identity", [user_id |-> user_id],
              delete_identity(Tables, user_id, fails))

\* the caller takes what its call returned and is free to make the next call
Taken(s) ==
    /\ is_some(returned[s])
    /\ returned' = [returned EXCEPT ![s] = None]
    /\ before' = [before EXCEPT ![s] = None]
    /\ UNCHANGED <<identities, external_logins, tx, session_vars, agent_vars, token_vars>>

\* the store of a service that started
StoreInit == Init /\ meta.ok /\ config.api_url.domain = Some(D_auth)


(***************************************************************************)
(* Search.  The statement is built as search builds it and run on the      *)
(* tables; the rows it returns go through Identity::from_row.              *)
(***************************************************************************)
MAX_COUNT == 100

\* the order of strings in the database, and NULL after every string
Collation == <<"a", "b", "e1", "e2">>
Rank(column, value) ==
    IF column = "user_id" THEN value
    ELSE IF column = "email"
    THEN IF is_none(value) THEN Len(Collation) + 1
         ELSE CHOOSE i \in 1..Len(Collation) : Collation[i] = value[1]
    ELSE CHOOSE i \in 1..Len(Collation) : Collation[i] = value

\* the comparison operators the database has
SqlOperators == {"=", ">"}

\* SearchIdentityOrder
SearchOrders ==
    [by : {"UserId"}, start : Option(Users)]
    \cup [by : {"Email"}, start : Option(Emails \X Users)]
    \cup [by : {"Name"}, start : Option(Names \X Users)]

\* SearchIdentity
SearchIdentities ==
    [order : SearchOrders, count : {None, Some(1), Some(MAX_COUNT + 1)},
     user_ids : {None, Some({1})}, emails : {None, Some({"e1"})}, names : {None, Some({"a"})}]

\* the conditions and_where adds: the filters, then the cursor of the order; each with
\* the comparison operators its text uses
search_where(search) ==
    (IF is_some(search.user_ids)
     THEN <<[kind |-> "any", column |-> "user_id", values |-> search.user_ids[1], ops |-> {"="}]>>
     ELSE << >>)
    \o (IF is_some(search.names)
        THEN <<[kind |-> "any", column |-> "name", values |-> search.names[1], ops |-> {"="}]>>
        ELSE << >>)
    \o (IF is_some(search.emails)
        THEN <<[kind |-> "any", column |-> "email", values |-> {Some(e) : e \in search.emails[1]},
                ops |-> {"="}]>>
        ELSE << >>)
    \o (IF is_none(search.order.start) THEN << >>
        ELSE IF search.order.by = "UserId"
        THEN <<[kind |-> "after", column |-> "user_id", value |-> search.order.start[1],
                ops |-> {">"}]>>
        ELSE IF search.order.by = "Email"
        THEN <<[kind |-> "after2", column |-> "email", value |-> Some(search.order.start[1][1]),
                user_id |-> search.order.start[1][2], ops |-> {">", "=="}]>>
        ELSE <<[kind |-> "after2", column |-> "name", value |-> search.order.start[1][1],
                user_id |-> search.order.start[1][2], ops |-> {">", "=="}]>>)

\* the columns order_by adds
search_order_by(search) ==
    IF search.order.by = "Email" THEN <<"email", "user_id">>
    ELSE IF search.order.by = "Name" THEN <<"name", "user_id">>
    ELSE <<"user_id">>

\* search_count, but the count of the request is not capped
search_count_uncapped(search) == IF is_some(search.count) THEN search.count[1] ELSE MAX_COUNT

\* usize::min(MAX_COUNT, search.count.unwrap_or(MAX_COUNT))
search_count(search) ==
    LET count == IF is_some(search.count) THEN search.count[1] ELSE MAX_COUNT
    IN IF MAX_COUNT < count THEN MAX_COUNT ELSE count

\* builder.build(): the statement of search
search_statement(search) ==
    [select |-> <<"user_id", "kind", "name", "created">>,
     where |-> search_where(search),
     order_by |-> search_order_by(search),
     limit |-> search_count(search)]

\* the row r satisfies the condition (a comparison with NULL is not true)
Satisfies(r, condition) ==
    IF condition.kind = "any" THEN r[condition.column] \in condition.values
    ELSE IF condition.kind = "after" THEN r[condition.column] > condition.value
    ELSE /\ ~(condition.column = "email" /\ is_none(r.email))
         /\ \/ Rank(condition.column, r[condition.column])
                    > Rank(condition.column, condition.value)
            \/ /\ r[condition.column] = condition.value
               /\ r.user_id > condition.user_id

\* r1 comes before r2 in ORDER BY columns
Precedes(r1, r2, columns) ==
    \E i \in 1..Len(columns) :
        /\ Rank(columns[i], r1[columns[i]]) < Rank(columns[i], r2[columns[i]])
        /\ \A j \in 1..(i - 1) :
              Rank(columns[j], r1[columns[j]]) = Rank(columns[j], r2[columns[j]])

RECURSIVE Ordered(_, _)
Ordered(rows, columns) ==
    IF rows = {} THEN << >>
    ELSE LET first == CHOOSE r \in rows : \A o \in rows \ {r} : Precedes(r, o, columns)
         IN <<first>> \o Ordered(rows \ {first}, columns)

\* Client::query: the statement is prepared and run.  A statement with an operator the
\* database does not have is not prepared.
query(tables, statement) ==
    IF \E i \in 1..Len(statement.where) : ~(statement.where[i].ops \subseteq SqlOperators)
    THEN Err("DBError")
    ELSE LET matching == {r \in tables.identities :
                            \A i \in 1..Len(statement.where) : Satisfies(r, statement.where[i])}
             ordered == Ordered(matching, statement.order_by)
             limited == SubSeq(ordered, 1, IF Len(ordered) < statement.limit
                                           THEN Len(ordered) ELSE statement.limit)
         IN Ok([i \in 1..Len(limited) |-> Select(statement.select, limited[i])])

\* IdentityManager::search
search(tables, search_identity) ==
    LET rows == query(tables, search_statement(search_identity)) IN
    IF ~rows.ok THEN Err("DBError")
    ELSE IF \E i \in 1..Len(rows.value) : ~Identity_from_row(rows.value[i]).ok
    THEN Err("DBError")
    ELSE Ok([i \in 1..Len(rows.value) |-> Identity_from_row(rows.value[i]).value])

Search(s) ==
    /\ is_none(returned[s])
    /\ \E search_identity \in SearchIdentities :
        Call1(s, "search", search_identity, Done1(search(Tables, search_identity), Tables))

\* one caller: every call ends before the next one begins
StoreNext ==
    \/ CreateUser_Begin("c1") \/ CreateUser_InsertIdentity("c1")
    \/ CreateUser_InsertLink("c1") \/ CreateUser_Commit("c1")
    \/ Find("c1") \/ LinkUser("c1") \/ DeleteIdentity("c1") \/ Search("c1")
    \/ Taken("c1")

StoreSpec == StoreInit /\ [][StoreNext]_vars

(***************************************************************************)
(* Properties of the identity store.                                       *)
(***************************************************************************)
\* caller s is back from a call of op
Returned(s, op) == is_some(returned[s]) /\ returned[s][1].op = op

\* the errors that tell which of user_id, name and email of the arguments is that of
\* an identity in rows
Collisions(rows, args) ==
    {e \in {"UserIdConflict", "NameConflict", "LinkEmailConflict"} :
        \E r \in rows :
            \/ e = "UserIdConflict" /\ r.user_id = args.user_id
            \/ e = "NameConflict" /\ r.name = args.user_name
            \/ e = "LinkEmailConflict" /\ is_some(args.email) /\ r.email = args.email}

\* C14: a create_user whose user_id, name or email is that of an existing identity fails,
\* with the error of a collision there is (or with DBError when the database fails for
\* another reason); a create_user that returns UserIdConflict, NameConflict or
\* LinkEmailConflict had that collision.  In both cases the tables are what they were
\* when the call began.
C14_ConflictIsolation ==
    \A s \in Callers : Returned(s, "create_user") =>
        LET call == returned[s][1]
            collisions == Collisions(before[s][1].identities, call.args)
        IN /\ collisions # {} =>
                /\ ~call.result.ok
                /\ call.result.err \in collisions \cup {"DBError"}
                /\ Tables = before[s][1]
           /\ ~call.result.ok
                 /\ call.result.err \in {"UserIdConflict", "NameConflict", "LinkEmailConflict"} =>
                /\ call.result.err \in collisions
                /\ Tables = before[s][1]

\* a create_user with the name of another identity and nothing else of it: NameConflict,
\* in a store that has a link as well
C14_Witness ==
    /\ Returned("c1", "create_user")
    /\ Collisions(before["c1"][1].identities, returned["c1"][1].args) = {"NameConflict"}
    /\ is_some(returned["c1"][1].args.email)
    /\ is_some(returned["c1"][1].args.external_login)
    /\ returned["c1"][1].result = Err("NameConflict")
    /\ external_logins # {}
    /\ Tables = before["c1"][1]

\* the rows of the user and of the pair of the arguments
HasIdentity(tables, user_id) == \E r \in tables.identities : r.user_id = user_id
LinkedTo(tables, external_login) ==
    {r.user_id : r \in {l \in tables.external_logins :
                            /\ l.provider = external_login.provider
                            /\ l.provider_id = external_login.provider_id}}

\* C15: a create_user with an external login commits the identity row and the link row
\* together or neither: while the call runs and when it failed the tables are what they
\* were when it began, and when it succeeded both rows are there.  When the pair is
\* linked already (and user_id, name and email are free) the call returns
\* LinkProviderConflict, or DBError when the database fails for another reason, and the
\* identity row it inserted is not in the table.
C15_CreateUserAtomic ==
    \A s \in Callers :
        /\ is_some(tx[s]) => Tables = before[s][1]
        /\ Returned(s, "create_user") /\ is_some(returned[s][1].args.external_login) =>
            LET call == returned[s][1]
                was == before[s][1]
            IN /\ call.result.ok =>
                    /\ HasIdentity(Tables, call.args.user_id)
                    /\ LinkedTo(Tables, call.args.external_login[1]) = {call.args.user_id}
                    /\ ~HasIdentity(was, call.args.user_id)
                    /\ LinkedTo(was, call.args.external_login[1]) = {}
               /\ ~call.result.ok => Tables = was
               /\ LinkedTo(was, call.args.external_login[1]) # {}
                     /\ Collisions(was.identities, call.args) = {} =>
                    /\ call.result \in {Err("LinkProviderConflict"), Err("DBError")}
                    /\ ~HasIdentity(Tables, call.args.user_id)

\* the identity was inserted, the pair was linked to another user: LinkProviderConflict
C15_Witness ==
    /\ Returned("c1", "create_user")
    /\ is_some(returned["c1"][1].args.external_login)
    /\ Collisions(before["c1"][1].identities, returned["c1"][1].args) = {}
    /\ LinkedTo(before["c1"][1], returned["c1"][1].args.external_login[1]) # {}
    /\ returned["c1"][1].result = Err("LinkProviderConflict")
    /\ ~HasIdentity(Tables, returned["c1"][1].args.user_id)

\* C16: when create_user succeeded, find by its user_id, by its name, by its email (when
\* one was given) and by its external login (when one was given) each return the
\* Identity create_user returned.
C16_RoundTrip ==
    \A s \in Callers : Returned(s, "create_user") /\ returned[s][1].result.ok =>
        LET args == returned[s][1].args
            identity == returned[s][1].result.value
        IN /\ find(Tables, [by |-> "UserId", user_id |-> args.user_id]) = Ok(Some(identity))
           /\ find(Tables, [by |-> "Name", name |-> args.user_name]) = Ok(Some(identity))
           /\ is_some(args.email) =>
                find(Tables, [by |-> "Email", email |-> args.email[1]]) = Ok(Some(identity))
           /\ is_some(args.external_login) =>
                find(Tables, [by |-> "ExternalLogin", external_login |-> args.external_login[1]])
                    = Ok(Some(identity))

\* a create_user with an email and an external login succeeded in a store that has
\* another identity with an email and a link
C16_Witness ==
    /\ Returned("c1", "create_user")
    /\ returned["c1"][1].result.ok
    /\ is_some(returned["c1"][1].args.email)
    /\ is_some(returned["c1"][1].args.external_login)
    /\ \E r \in before["c1"][1].identities : is_some(r.email)
    /\ before["c1"][1].external_logins # {}
    /\ Cardinality(identities) = 2
    /\ Cardinality(external_logins) = 2

\* C17: in every state of the store a pair (provider, provider_id) has at most one link
\* row, so it is bound to at most one identity.  A link_user, or a create_user with an
\* external login, for a pair that is linked already fails, with LinkProviderConflict
\* unless another error comes first (a collision of the identity, a failure of the
\* database), and leaves the table of links as it was.
C17_LinkUniqueness ==
    /\ \A l1, l2 \in external_logins :
          l1.provider = l2.provider /\ l1.provider_id = l2.provider_id => l1 = l2
    /\ \A s \in Callers : Returned(s, "link_user") =>
          LET call == returned[s][1] IN
          LinkedTo(before[s][1], call.args.external_login) # {} =>
              /\ call.result \in {Err("LinkProviderConflict"), Err("DBError")}
              /\ external_logins = before[s][1].external_logins
    /\ \A s \in Callers :
          Returned(s, "create_user") /\ is_some(returned[s][1].args.external_login) =>
          LET call == returned[s][1] IN
          LinkedTo(before[s][1], call.args.external_login[1]) # {} =>
              /\ ~call.result.ok
              /\ Collisions(before[s][1].identities, call.args) = {} =>
                    call.result \in {Err("LinkProviderConflict"), Err("DBError")}
              /\ external_logins = before[s][1].external_logins

\* a link_user of an existing user for a pair that is linked to another user
C17_Witness ==
    /\ Returned("c1", "link_user")
    /\ HasIdentity(Tables, returned["c1"][1].args.user_id)
    /\ LinkedTo(Tables, returned["c1"][1].args.external_login) # {}
    /\ returned["c1"][1].args.user_id \notin LinkedTo(Tables, returned["c1"][1].args.external_login)
    /\ returned["c1"][1].result = Err("LinkProviderConflict")

\* the pairs linked to the user
PairsOf(tables, user_id) ==
    {[provider |-> l.provider, provider_id |-> l.provider_id] :
        l \in {r \in tables.external_logins : r.user_id = user_id}}

\* C18: in no state of the store is there a link whose identity is gone.  When
\* delete_identity succeeded, the identity and all its links are gone and no other row
\* has changed; find by a pair it had returns None, and link_user binds that pair to any
\* identity there is.
C18_DeleteCascade ==
    /\ \A l \in external_logins : HasIdentity(Tables, l.user_id)
    /\ \A s \in Callers : Returned(s, "delete_identity") /\ returned[s][1].result.ok =>
          LET user_id == returned[s][1].args.user_id
              was == before[s][1]
          IN /\ identities = {r \in was.identities : r.user_id # user_id}
             /\ external_logins = {r \in was.external_logins : r.user_id # user_id}
             /\ \A pair \in PairsOf(was, user_id) :
                   /\ find(Tables, [by |-> "ExternalLogin", external_login |-> pair]) = Ok(None)
                   /\ \A other \in Users : HasIdentity(Tables, other) =>
                         LET linked == link_user(Tables, other, pair, now, FALSE) IN
                         /\ linked.result = Ok("unit")
                         /\ LinkedTo(linked.tables, pair) = {other}

\* an identity with two links was deleted and another identity is left
C18_Witness ==
    /\ Returned("c1", "delete_identity")
    /\ returned["c1"][1].result.ok
    /\ Cardinality(PairsOf(before["c1"][1], returned["c1"][1].args.user_id)) = 2
    /\ HasIdentity(before["c1"][1], returned["c1"][1].args.user_id)
    /\ identities # {}
    /\ external_logins = {}

(***************************************************************************)
(* Two callers, each in one create_user, on an empty store: the steps of   *)
(* the two calls interleave.                                               *)
(***************************************************************************)
RaceNext ==
    \E s \in Callers :
        \/ CreateUser_Begin(s) \/ CreateUser_InsertIdentity(s)
        \/ CreateUser_InsertLink(s) \/ CreateUser_Commit(s)

RaceSpec == StoreInit /\ [][RaceNext]_vars

\* the conflict errors that tell what two calls have in common
Shared(a1, a2) ==
    {e \in {"UserIdConflict", "NameConflict", "LinkEmailConflict", "LinkProviderConflict"} :
        \/ e = "UserIdConflict" /\ a1.user_id = a2.user_id
        \/ e = "NameConflict" /\ a1.user_name = a2.user_name
        \/ e = "LinkEmailConflict" /\ is_some(a1.email) /\ a1.email = a2.email
        \/ e = "LinkProviderConflict" /\ is_some(a1.external_login)
              /\ a1.external_login = a2.external_login}

\* the rows a create_user with the arguments leaves when it succeeds
RowsOf(args) ==
    [identities |-> {identities_row(args.user_id, "User", args.user_name, args.email, now)},
     external_logins |-> IF is_some(args.external_login)
                         THEN {external_logins_row(args.user_id, args.external_login[1], now)}
                         ELSE {}]

\* C19: two create_user calls with the same name, the same email or the same pair never
\* both succeed, however their steps interleave.  When both have returned and the
\* database did not fail for another reason, one has succeeded and the other has
\* returned the error of something the two have in common (UserIdConflict only when they
\* use the same user_id as well); the tables hold the rows of the one that succeeded and
\* no other row.
C19_RaceHasOneWinner ==
    (\A s \in Callers : Returned(s, "create_user")) =>
        \A w \in Callers : \A l \in Callers \ {w} :
            LET won == returned[w][1]
                lost == returned[l][1]
            IN Shared(won.args, lost.args) \ {"UserIdConflict"} # {} =>
                  /\ ~(won.result.ok /\ lost.result.ok)
                  /\ won.result.ok => /\ Tables = RowsOf(won.args)
                                      /\ lost.result.err \in Shared(won.args, lost.args) \cup {"DBError"}
                  /\ won.result # Err("DBError") /\ lost.result # Err("DBError") =>
                        won.result.ok \/ lost.result.ok

\* both calls began on the empty store with the same name and email and different
\* user_id; c1 inserted its link as well, c2 lost with NameConflict
C19_Witness ==
    /\ \A s \in Callers : Returned(s, "create_user") /\ before[s][1].identities = {}
    /\ returned["c1"][1].args.user_id # returned["c2"][1].args.user_id
    /\ returned["c1"][1].args.user_name = returned["c2"][1].args.user_name
    /\ is_some(returned["c1"][1].args.external_login)
    /\ returned["c1"][1].result.ok
    /\ returned["c2"][1].result = Err("NameConflict")
    /\ Tables = RowsOf(returned["c1"][1].args)

\* the Identity of a row of identities
IdentityOf(r) ==
    [user_id |-> r.user_id, kind |-> from_sql_IdentityKind(r.kind).value, name |-> r.name,
     email |-> r.email, is_email_confirmed |-> r.email_confirmed, creation |-> r.created]

\* the rows that pass the filters of the search
Filtered(tables, s) ==
    {r \in tables.identities :
        /\ is_some(s.user_ids) => r.user_id \in s.user_ids[1]
        /\ is_some(s.names) => r.name \in s.names[1]
        /\ is_some(s.emails) => is_some(r.email) /\ r.email[1] \in s.emails[1]}

\* the page of a search ordered by name: the filtered rows after the cursor in the order
\* of (name, user_id), the first count of them and never more than MAX_COUNT
PageByName(tables, s) ==
    LET after == {r \in Filtered(tables, s) :
                     is_some(s.order.start) =>
                        \/ Rank("name", r.name) > Rank("name", s.order.start[1][1])
                        \/ r.name = s.order.start[1][1] /\ r.user_id > s.order.start[1][2]}
        ordered == Ordered(after, <<"name", "user_id">>)
        n == IF is_some(s.count) /\ s.count[1] < MAX_COUNT THEN s.count[1] ELSE MAX_COUNT
    IN [i \in 1..(IF Len(ordered) < n THEN Len(ordered) ELSE n) |-> IdentityOf(ordered[i])]

\* C20: a search ordered by name returns the page of its cursor: without cursor the first
\* count identities that pass the filters in ascending order of (name, user_id), with the
\* cursor (name, user_id) the first count of those after it.  Pages taken one after the
\* other with the last row of each as the next cursor then give every such identity
\* once, whatever is inserted in between.
C20_PaginationByName ==
    \A s \in Callers : Returned(s, "search") /\ returned[s][1].args.order.by = "Name" =>
        returned[s][1].result = Ok(PageByName(before[s][1], returned[s][1].args))

\* C21: the statement of a search is limited to the count of the request when that is
\* at most MAX_COUNT and to MAX_COUNT when it is more or there is none; the database
\* returns no more rows than that and search no more identities.
C21_SearchLimit ==
    \A s \in Callers : Returned(s, "search") =>
        LET args == returned[s][1].args
            statement == search_statement(args)
            rows == query(before[s][1], statement)
            most == IF is_some(args.count) /\ args.count[1] <= MAX_COUNT
                    THEN args.count[1] ELSE MAX_COUNT
        IN /\ statement.limit = most
           /\ rows.ok => Len(rows.value) <= most
           /\ returned[s][1].result.ok => Len(returned[s][1].result.value) <= most

\* a search with count 1 and no filter on a store with two identities: the statement
\* gives one row
C21_Witness ==
    /\ Returned("c1", "search")
    /\ returned["c1"][1].args.count = Some(1)
    /\ returned["c1"][1].args.order = [by |-> "UserId", start |-> None]
    /\ Cardinality(Filtered(Tables, returned["c1"][1].args)) = 2
    /\ Len(query(Tables, search_statement(returned["c1"][1].args)).value) = 1

(***************************************************************************)
(* Properties of the response of a login.                                  *)
(***************************************************************************)
\* C22: after a Callback that logs a user in, the cookie of the user session in the
\* response expires at a time after the response (it is persistent) when the flow was
\* started with remember_me, and with the browser session when it was not.
C22_RememberMePersistent ==
    pc = "responded" /\ handler \in Callbacks /\ ~result.panicked
            /\ result.page.outcome = "LoggedIn" =>
        LET user == response[1][1]
        IN IF auth_session.external_login[1].remember_me
           THEN user.expires # Expiration_Session /\ user.expires[1] > now
           ELSE user.expires = Expiration_Session

(***************************************************************************)
(* Properties of the construction of the session model.                    *)
(***************************************************************************)
\* the domain is the other one or ends with a dot and the other one
SubdomainOf(domain, of) == domain = of \/ ends_with(domain, <<".">> \o of)

\* C23: when the home url and the url of the auth service both have a domain, the
\* session model is rejected with InvalidApiDomain exactly when the domain of the auth
\* service is neither the home domain nor a subdomain of it; a domain that only ends
\* with the characters of the home domain is rejected.
C23_ApiDomain ==
    is_some(config.home_url.domain) /\ is_some(config.api_url.domain) =>
        (meta = Err("InvalidApiDomain")
            <=> ~SubdomainOf(config.api_url.domain[1], config.home_url.domain[1]))

(***************************************************************************)
(* Properties of the order of the steps of a Callback.                     *)
(***************************************************************************)
\* the positions of a call in the calls of a handler
Positions(calls, call) == {i \in DOMAIN calls : calls[i] = call}
\* the calls that reach the identity store
StoreCalls == {"page_external_link", "page_external_login"}
\* the calls that resolve the user info: get_external_user_info, id_token.claims
UserInfoCalls == {"get_external_user_info", "claims"}

\* C24: in a Callback the code is exchanged only when the flow state was found, the
\* state parameter equals its csrf_state and, for OpenID Connect, it has a nonce; the
\* exchange is the first call and there is at most one.  The identity store is reached
\* only as the last call, after an exchange that gave a token and a user-info
\* resolution that gave the user, in that order.  A Callback that fails before the
\* exchange makes no call.
C24_CallbackOrder ==
    pc = "responded" /\ handler \in Callbacks =>
        LET calls == result.calls
            e == auth_session.external_login
            passes == /\ is_some(e)
                      /\ e[1].csrf_state = input.query.state
                      /\ handler = "page_oidc_auth" => is_some(e[1].nonce)
            resolved == IF handler = "page_oidc_auth"
                        THEN /\ is_some(input.reply.token[1].id_token)
                             /\ input.reply.token[1].id_token[1].nonce = e[1].nonce[1]
                        ELSE is_some(input.reply.user_info)
        IN /\ ~result.panicked
           /\ Positions(calls, "exchange_code") = (IF passes THEN {1} ELSE {})
           /\ ~passes => calls = << >>
           /\ \A i \in DOMAIN calls :
                /\ calls[i] \in UserInfoCalls => i = 2 /\ is_some(input.reply.token)
                /\ calls[i] \in StoreCalls =>
                     /\ i = 3 /\ i = Len(calls)
                     /\ calls[2] \in UserInfoCalls
                     /\ is_some(input.reply.token)
                     /\ resolved

\* an OpenID Connect callback that goes all the way: exchange, claims, identity store
C24_Witness ==
    /\ pc = "responded"
    /\ handler = "page_oidc_auth"
    /\ result.calls = <<"exchange_code", "claims", "page_external_login">>
    /\ is_some(input.reply.token)
    /\ auth_session.external_login[1].csrf_state = input.query.state

\* C25: a Callback that comes to the branch (the exchange gave a token and the user
\* info was resolved) calls page_external_link when the flow state it consumed has a
\* linked_user and page_external_login when it has none; it calls one of the two and
\* never both, so a linking flow resolves or creates no identity and a login flow
\* links nothing.  A Callback that does not come to the branch calls neither.
C25_Branch ==
    pc = "responded" /\ handler \in Callbacks =>
        LET calls == result.calls
            e == auth_session.external_login
            at_branch ==
                /\ is_some(e)
                /\ handler = "page_oidc_auth" => is_some(e[1].nonce)
                /\ e[1].csrf_state = input.query.state
                /\ is_some(input.reply.token)
                /\ IF handler = "page_oidc_auth"
                   THEN /\ is_some(input.reply.token[1].id_token)
                        /\ input.reply.token[1].id_token[1].nonce = e[1].nonce[1]
                   ELSE is_some(input.reply.user_info)
            link == Positions(calls, "page_external_link") # {}
            login == Positions(calls, "page_external_login") # {}
        IN /\ ~(link /\ login)
           /\ link <=> at_branch /\ is_some(e[1].linked_user)
           /\ login <=> at_branch /\ is_none(e[1].linked_user)
           /\ link => /\ result.page.outcome = "Linked"
                      /\ result.page.auth_session.user = auth_session.user
           /\ login => result.page.outcome = "LoggedIn"

\* a linking flow of an OpenID Connect provider that comes to the branch
C25_Witness ==
    /\ pc = "responded"
    /\ handler = "page_oidc_auth"
    /\ is_some(auth_session.external_login)
    /\ is_some(auth_session.external_login[1].linked_user)
    /\ result.page.outcome = "Linked"
    /\ result.calls[3] = "page_external_link"

(***************************************************************************)
(* Properties of the failures of create_user.                              *)
(***************************************************************************)
\* C26: when create_user returns the generic store error (an insert failed and the
\* failure is none of the four mapped constraints) no row of the call is committed:
\* the transaction is gone and the tables are what they were when the call began.
C26_DBErrorLeavesStore ==
    \A s \in Callers :
        Returned(s, "create_user") /\ returned[s][1].result = Err("DBError") =>
            /\ is_none(tx[s])
            /\ Tables = before[s][1]
            /\ ~HasIdentity(before[s][1], returned[s][1].args.user_id) =>
                    ~HasIdentity(Tables, returned[s][1].args.user_id)

\* a create_user with an external login that collides with no row and links a new
\* pair fails with the generic store error
C26_Witness ==
    /\ Returned("c1", "create_user")
    /\ returned["c1"][1].result = Err("DBError")
    /\ is_some(returned["c1"][1].args.external_login)
    /\ Collisions(before["c1"][1].identities, returned["c1"][1].args) = {}
    /\ LinkedTo(before["c1"][1], returned["c1"][1].args.external_login[1]) = {}
    /\ before["c1"][1].identities # {}

(***************************************************************************)
(* Properties of the search ordered by email.                              *)
(***************************************************************************)
\* the page of a search ordered by email: the filtered rows after the cursor in the
\* order of (email, user_id), the rows without email after those with one, the first
\* count of them and never more than MAX_COUNT
PageByEmail(tables, s) ==
    LET after == {r \in Filtered(tables, s) :
                     is_some(s.order.start) =>
                        \/ Rank("email", r.email) > Rank("email", Some(s.order.start[1][1]))
                        \/ r.email = Some(s.order.start[1][1])
                              /\ r.user_id > s.order.start[1][2]}
        ordered == Ordered(after, <<"email", "user_id">>)
        n == IF is_some(s.count) /\ s.count[1] < MAX_COUNT THEN s.count[1] ELSE MAX_COUNT
    IN [i \in 1..(IF Len(ordered) < n THEN Len(ordered) ELSE n) |-> IdentityOf(ordered[i])]

\* C27: a search ordered by email returns the page of its cursor: the first count
\* identities that pass the filters and come after the cursor (email, user_id) in
\* ascending order of (email, user_id), those without email included; pages taken with
\* the last row of each as the next cursor then give every such identity once.
C27_PaginationByEmail ==
    \A s \in Callers : Returned(s, "search") /\ returned[s][1].args.order.by = "Email" =>
        returned[s][1].result = Ok(PageByEmail(before[s][1], returned[s][1].args))

(***************************************************************************)
(* The token generator of the service.                                     *)
(***************************************************************************)
MaxDuration == 2
Durations == 0..MaxDuration

\* AuthSessionConfig: session_max_duration and token_max_duration, in seconds
AuthSessionConfigs == [session_max_duration : Durations, token_max_duration : Durations]

\* Duration::seconds; the clock of the model counts seconds
Duration_seconds(seconds) == seconds

\* TokenGenerator::new
TokenGenerator_new(max_duration) == [max_duration |-> max_duration]

\* the opaque strings a generator draws
RandomTokens == {"t1", "t2"}

\* TokenGenerator::generate: a random token that expires max_duration from now
TokenGenerator_generate(self, user_id, random, utc_now) ==
    [user_id |-> user_id, token |-> random, expires |-> utc_now + self.max_duration]

\* AuthServiceBuilder::new: the token generator the state of the service holds
AuthServiceBuilder_new(session_config) ==
    LET token_max_duration == Duration_seconds(session_config.session_max_duration)
    IN TokenGenerator_new(token_max_duration)

\* the service is built from a configuration
Build ==
    /\ is_none(token_generator)
    /\ \E session_config \in AuthSessionConfigs :
        /\ auth_session_config' = Some(session_config)
        /\ token_generator' = Some(AuthServiceBuilder_new(session_config))
    /\ UNCHANGED <<issued, session_vars, agent_vars, store_vars>>

\* a handler has the generator of the service issue a token for a user
Generate ==
    /\ is_some(token_generator)
    /\ \E user_id \in Users, random \in RandomTokens :
        issued' = Some([at |-> now,
                        token |-> TokenGenerator_generate(token_generator[1], user_id,
                                                          random, now)])
    /\ UNCHANGED <<auth_session_config, token_generator, session_vars, agent_vars, store_vars>>

TokenNext == Tick \/ Build \/ Generate
TokenSpec == StoreInit /\ [][TokenNext]_vars

\* C28: every token the generator of the service issues expires token_max_duration of the
\* configuration after the time it is issued at, whatever session_max_duration is.
C28_TokenMaxDuration ==
    is_some(issued) =>
        issued[1].token.expires
            = issued[1].at + Duration_seconds(auth_session_config[1].token_max_duration)

(***************************************************************************)
(* Properties of the assertion of the Start.                               *)
(***************************************************************************)
\* C29: the assertion at the end of the Start of an OAuth2 login holds on every session
\* the extractor gives: a Start on a session without user, which passes the
\* LogoutRequired check, finds no token login either and does not abort.
C29_StartAssertion ==
    pc = "responded" /\ handler = "page_oauth2_login" /\ is_none(auth_session.user) =>
        /\ is_none(auth_session.token_login)
        /\ ~result.panicked

(***************************************************************************)
(* Properties of the user of a Callback.                                   *)
(***************************************************************************)
\* C30: in a Callback whose session has an external login, the user of the session and
\* the linked_user of the external login are both absent or both present with the same
\* user_id.  So the Callback logs a user in only on a session without user, and links
\* only for the user of the session.
C30_UserAgreesWithFlow ==
    pc = "responded" /\ handler \in Callbacks /\ is_some(auth_session.external_login) =>
        LET user == auth_session.user
            linked_user == auth_session.external_login[1].linked_user
        IN /\ is_some(user) <=> is_some(linked_user)
           /\ is_some(user) => user[1].user_id = linked_user[1].user_id
           /\ Positions(result.calls, "page_external_login") # {} => is_none(user)
           /\ Positions(result.calls, "page_external_link") # {} =>
                /\ is_some(user)
                /\ user[1].user_id = linked_user[1].user_id
                /\ result.handed.user = user

\* a linking Callback of an OAuth2 provider by the user the flow was started for, whose
\* cookies came with the token login that keeps the user
C30_Witness ==
    /\ pc = "responded"
    /\ handler = "page_oauth2_auth"
    /\ is_some(auth_session.user)
    /\ is_some(auth_session.token_login)
    /\ is_some(auth_session.external_login)
    /\ auth_session.external_login[1].linked_user = auth_session.user
    /\ Positions(result.calls, "page_external_link") # {}

(***************************************************************************)
(* A user agent that starts a login again while a flow is pending.  It     *)
(* presents the cookies the last response left it.                         *)
(***************************************************************************)
\* a Start of the user agent: the first, or one more while none was overwritten yet
AgentRestart ==
    /\ is_none(flow) \/ is_none(superseded)
    /\ OAuth2Login

PendingNext ==
    \/ Tick \/ AgentSend \/ Dispatch
    \/ AgentRestart \/ OAuth2Auth \/ OIDCAuth \/ Logout \/ AgentDone

\* the service of the user agent: one that was built, under the auth domain
PendingSpec == StoreInit /\ [][PendingNext]_vars

\* C31: a user agent has one pending flow.  A Start that redirects stores the CSRF
\* token and the verifier drawn for it in place of the external login the session had,
\* and the user agent then holds the cookie of that flow and no other.  A Callback of
\* the OAuth2 provider on the pending flow fails with InvalidCSRF when its state
\* parameter is the token of the flow that was overwritten (and not again the token of
\* the pending one), and passes the CSRF check when it is the token of the pending flow.
C31_OnePendingFlow ==
    /\ pc = "responded" /\ handler = "page_oauth2_login"
            /\ result.page.outcome = "Redirect" =>
          /\ result.handed.external_login[1].csrf_state = input.random.csrf_state
          /\ result.handed.external_login[1].pkce_code_verifier
                = input.random.pkce_code_verifier
    /\ pc = "idle" /\ meta.ok /\ is_some(jar.external_login) =>
          from_request_parts(jar, meta.value, now).external_login = flow
    /\ pc = "responded" /\ handler = "page_oauth2_auth" /\ is_some(superseded)
            /\ is_some(auth_session.external_login) =>
          /\ auth_session.external_login = flow
          /\ input.query.state = superseded[1].csrf_state
                /\ superseded[1].csrf_state # flow[1].csrf_state =>
                result.page.outcome = "InvalidCSRF"
          /\ input.query.state = flow[1].csrf_state =>
                result.page.outcome \in PastCsrfCheck

\* the Callback echoes the state of the first Start after a second Start drew another
C31_Witness ==
    /\ pc = "responded"
    /\ handler = "page_oauth2_auth"
    /\ is_some(superseded)
    /\ auth_session.external_login = flow
    /\ superseded[1].csrf_state # flow[1].csrf_state
    /\ input.query.state = superseded[1].csrf_state
    /\ result.page.outcome = "InvalidCSRF"

(***************************************************************************)
(* Callers that create, link and delete at the same time.  link_user and   *)
(* delete_identity are one statement each, so what interleaves is the      *)
(* transaction of a create_user of one caller with the statements of the   *)
(* other.  A caller takes what its call returned before the other caller   *)
(* makes its next step.  The identities are created without email, which   *)
(* takes no part in the links.                                             *)
(***************************************************************************)
IntegrityNext ==
    \/ Taken("c1")
    \/ Taken("c2")
    \/ /\ is_none(returned["c1"]) /\ is_none(returned["c2"])
       /\ \/ CreateUser_Begin("c1") /\ is_none(tx'["c1"][1].email)
          \/ CreateUser_InsertIdentity("c1")
          \/ CreateUser_InsertLink("c1") \/ CreateUser_Commit("c1")
          \/ LinkUser("c2") \/ DeleteIdentity("c2")

IntegritySpec == StoreInit /\ [][IntegrityNext]_vars

\* every committed link is a link of a committed identity, and the link a transaction
\* has inserted is a link of the identity it has inserted
NoDanglingLink ==
    /\ \A l \in external_logins : HasIdentity(Tables, l.user_id)
    /\ \A s \in Callers : is_some(tx[s]) /\ is_some(tx[s][1].link) =>
          /\ is_some(tx[s][1].identity)
          /\ tx[s][1].link[1].user_id = tx[s][1].identity[1].user_id

\* C32 as stated: no link is without identity, and a link_user for a user that is not
\* in the store fails with the generic store error.
C32_Original ==
    /\ NoDanglingLink
    /\ \A s \in Callers :
          Returned(s, "link_user")
                /\ ~HasIdentity(before[s][1], returned[s][1].args.user_id) =>
              returned[s][1].result = Err("DBError")

\* C32: whatever create_user, link_user and delete_identity calls run and however they
\* interleave, every link refers to an identity in the store.  A link_user for a user
\* that is not in the store (never created, or deleted before the statement runs) fails
\* and the pair is linked to nobody it was not linked to: with the generic store error
\* when the pair is not linked yet, and with LinkProviderConflict (or the generic store
\* error, when the database fails otherwise) when the pair is linked to an identity
\* already.  LinkProviderConflict is returned only for a pair that is linked.
C32_ReferentialIntegrity ==
    /\ NoDanglingLink
    /\ \A s \in Callers : Returned(s, "link_user") =>
          LET call == returned[s][1]
              was == before[s][1]
          IN /\ ~HasIdentity(was, call.args.user_id) =>
                  /\ ~call.result.ok
                  /\ LinkedTo(was, call.args.external_login) = {} =>
                        call.result = Err("DBError")
                  /\ LinkedTo(was, call.args.external_login) # {} =>
                        call.result \in {Err("LinkProviderConflict"), Err("DBError")}
             /\ call.result = Err("LinkProviderConflict") =>
                  LinkedTo(was, call.args.external_login) # {}

\* one caller is creating the user (the identity is inserted and not committed) when
\* the other links a new pair to that user
C32_Witness ==
    /\ is_some(tx["c1"])
    /\ is_some(tx["c1"][1].identity)
    /\ Returned("c2", "link_user")
    /\ returned["c2"][1].args.user_id = tx["c1"][1].user_id
    /\ ~HasIdentity(before["c2"][1], returned["c2"][1].args.user_id)
    /\ LinkedTo(before["c2"][1], returned["c2"][1].args.external_login) = {}
    /\ returned["c2"][1].result = Err("DBError")
    /\ external_logins # {}

(***************************************************************************)
(* Properties of the rows a search maps.                                   *)
(***************************************************************************)
\* C33: a search returns Ok, also when its filters match a row, and each identity it
\* returns is the one find by UserId returns for that user: the same user_id, kind,
\* name, email, is_email_confirmed and creation.
C33_SearchMapsRows ==
    \A s \in Callers : Returned(s, "search") =>
        LET call == returned[s][1]
            was == before[s][1]
        IN /\ call.result.ok
           /\ Filtered(was, call.args) # {} /\ is_none(call.args.order.start) =>
                 Len(call.result.value) >= 1
           /\ \A i \in DOMAIN call.result.value :
                 find(was, [by |-> "UserId", user_id |-> call.result.value[i].user_id])
                    = Ok(Some(call.result.value[i]))

====
